---- MODULE Spec2Model ----
(***************************************************************************)
(* auto-g: GitHub issues mirrored into a relational store, with a local    *)
(* workflow status.  The model covers the issue store (prisma.issue), the  *)
(* two sync variants (syncIssuesFromGitHub, syncUserAssignedIssues) and    *)
(* the start endpoint (POST /api/issues/:id/start).                        *)
(*                                                                         *)
(* A request is a process in a slot.  JavaScript runs a handler without    *)
(* interruption between two awaits, so one action of the model is: the     *)
(* awaited call (a remote fetch or one store call) completes, and the      *)
(* handler runs on to the next await or to its return.                     *)
(*                                                                         *)
(* Strings the code takes apart (GH_REPOS, "owner/name", repository_url)   *)
(* are sequences of tokens, so that split, trim and the regular expression *)
(* are computed and not assumed.                                           *)
(***************************************************************************)
EXTENDS Integers, Sequences, FiniteSets, TLC

VARIABLES store, nextId, env, proc, served

vars == <<store, nextId, env, proc, served>>

(***************************************************************************)
(* Bounds of the model                                                     *)
(***************************************************************************)
\* requests served in one behaviour
MaxRequests == 3
\* full pages a repository can return before its short page
MaxFullPages == 1
\* sync runs served in one behaviour of the racing runs
MaxRaceRequests == 2

\* sync runs served on a table that already holds a row
MaxStoredRequests == 1

\* list requests served in one behaviour
MaxListRequests == 1

(***************************************************************************)
(* Values                                                                  *)
(***************************************************************************)
\* JavaScript values that can be null, undefined or of several types
Null == [t |-> "null"]
Undefined == [t |-> "undefined"]
Str(s) == [t |-> "string", v |-> s]
Num(n) == [t |-> "number", n |-> n]

\* a check that lets every value pass
TruthyOfAnything(x) == TRUE

\* JavaScript truthiness of such a value: !x is ~Truthy(x)
Truthy(x) ==
    CASE x.t = "string" -> x.v # ""
      [] x.t = "number" -> x.n # 0
      [] OTHER -> FALSE

TypeOf(x) == IF x.t = "null" THEN "object" ELSE x.t

\* a start route that stores body.prompt as it came
OrNullKeepsValue(x) == x

\* x || null
OrNull(x) == IF Truthy(x) THEN x ELSE Null

\* the page size of the GitHub list endpoint
perPage == 100

(***************************************************************************)
(* Strings as token sequences: split, trim, the repository regex           *)
(***************************************************************************)
\* the first index >= from where s holds tok, or 0
RECURSIVE IndexOf(_, _, _)
IndexOf(s, tok, from) ==
    IF from > Len(s) THEN 0
    ELSE IF s[from] = tok THEN from
    ELSE IndexOf(s, tok, from + 1)

\* String.prototype.split(sep): the pieces between the separators
RECURSIVE Split(_, _)
Split(s, sep) ==
    LET i == IndexOf(s, sep, 1)
    IN  IF i = 0 THEN <<s>>
        ELSE <<SubSeq(s, 1, i - 1)>> \o Split(SubSeq(s, i + 1, Len(s)), sep)

\* String.prototype.trim(): blanks removed at both ends
RECURSIVE Trim(_)
Trim(s) ==
    IF s = <<>> THEN s
    ELSE IF Head(s) = " " THEN Trim(Tail(s))
    ELSE IF s[Len(s)] = " " THEN Trim(SubSeq(s, 1, Len(s) - 1))
    ELSE s

\* reposConfig.split(',').map((r) => r.trim())
ParseRepos(reposConfig) ==
    LET parts == Split(reposConfig, ",")
    IN  [i \in 1..Len(parts) |-> Trim(parts[i])]

\* the leftmost i with s[i] = "repos", s[i+1] = "/" and something after it, or 0
RECURSIVE ReposMatch(_, _)
ReposMatch(s, i) ==
    IF i + 2 > Len(s) THEN 0
    ELSE IF s[i] = "repos" /\ s[i + 1] = "/" THEN i
    ELSE ReposMatch(s, i + 1)

\* repoUrl.match(/repos\/(.+)$/): the text after the first "repos/", or the url
extractRepoFromUrl(repoUrl) ==
    LET i == ReposMatch(repoUrl, 1)
    IN  IF i = 0 THEN repoUrl ELSE SubSeq(repoUrl, i + 2, Len(repoUrl))

RepoA == <<"o", "/", "a">>
RepoB == <<"o", "/", "b">>
RepoC == <<"o", "/", "c">>
RepoD == <<"o", "/", "d">>

\* the repositories of the sample rows
MonoRepo == <<"clip-money", "/", "cnp-checkout-monorepo">>
CheckoutApiRepo == <<"clip-money", "/", "checkout-api">>
ApiBase == <<"https:", "/", "/", "api.github.com", "/">>
WebBase == <<"https:", "/", "/", "github.com", "/">>

\* new Date(isoString): the instant as a day number
NewDate(s) ==
    CASE s = "2024-12-01T00:00:00Z" -> 20241201
      [] s = "2024-12-02T00:00:00Z" -> 20241202
      [] s = "2024-12-01" -> 20241201
      [] s = "2024-12-02" -> 20241202
      [] s = "2024-11-28" -> 20241128
      [] s = "2024-11-20" -> 20241120
      [] s = "2024-11-30" -> 20241130
      [] OTHER -> 0

(***************************************************************************)
(* The remote: what GitHub can answer                                      *)
(***************************************************************************)
States == {"open", "closed"}
Versions == {"v1", "v2"}

\* a number inside a url
NumText(n) == CASE n = 1 -> "1" [] n = 2 -> "2" [] n = 3 -> "3" [] OTHER -> "n"

\* one entry of the issues endpoint for issue n of repository r, in state st,
\* with the content of version v; pr is the pull_request marker
Entry(n, r, st, v, pr) ==
    [number |-> n,
     title |-> IF v = "v1" THEN "first title" ELSE "edited title",
     body |-> IF v = "v1" THEN Null ELSE Str("edited body"),
     state |-> st,
     html_url |-> WebBase \o r \o <<"/", "issues", "/", NumText(n)>>,
     labels |-> IF v = "v1" THEN <<>> ELSE <<[name |-> "bug"]>>,
     created_at |-> "2024-12-01T00:00:00Z",
     updated_at |-> IF v = "v1" THEN "2024-12-01T00:00:00Z" ELSE "2024-12-02T00:00:00Z",
     repository_url |-> ApiBase \o <<"repos", "/">> \o r,
     pull_request |-> pr]

RemoteIssue(n, r, st, v) == Entry(n, r, st, v, FALSE)
PullRequest(n, r) == Entry(n, r, "open", "v1", TRUE)

(***************************************************************************)
(* The issue store: table "issues" behind prisma.issue                     *)
(***************************************************************************)
\* The local bookkeeping columns created_at and updated_at hold the clock of
\* the database and are not modelled.

\* a lookup that never finds the row
FindByKeyFindsNothing(s, n, r) == Null

\* prisma.issue.findUnique({ where: { githubNumber_repository } })
FindByKey(s, n, r) ==
    IF \E row \in s : row.githubNumber = n /\ row.repository = r
    THEN CHOOSE row \in s : row.githubNumber = n /\ row.repository = r
    ELSE Null

\* prisma.issue.findUnique({ where: { id } })
FindById(s, id) ==
    IF \E row \in s : row.id = id
    THEN CHOOSE row \in s : row.id = id
    ELSE Null

\* a table without the unique index
UniqueViolationNoIndex(s, data) == FALSE

\* a unique index on github_number alone
UniqueViolationOnNumberOnly(s, data) ==
    \E row \in s : row.githubNumber = data.githubNumber

\* the unique index issues_github_number_repository_key rejects the insert
UniqueViolation(s, data) ==
    \E row \in s : row.githubNumber = data.githubNumber /\ row.repository = data.repository

\* the row an insert of data makes: the generated id and the column defaults
NewRow(id, data) ==
    [id |-> id,
     githubNumber |-> data.githubNumber,
     repository |-> data.repository,
     title |-> data.title,
     description |-> data.description,
     statusGithub |-> data.statusGithub,
     workflowStatus |-> data.workflowStatus,
     url |-> data.url,
     labels |-> data.labels,
     createdAtGithub |-> data.createdAtGithub,
     updatedAtGithub |-> data.updatedAtGithub,
     selectedContext |-> Null,
     prompt |-> Null]

\* prisma.issue.create({ data }): the store with the new row
Created(s, id, data) == s \cup {NewRow(id, data)}

\* a row with the columns named in data overwritten
Patched(row, data) ==
    [f \in DOMAIN row |-> IF f \in DOMAIN data THEN data[f] ELSE row[f]]

\* prisma.issue.update({ where: { id }, data }): the store with the row patched
Updated(s, id, data) ==
    {IF row.id = id THEN Patched(row, data) ELSE row : row \in s}

(***************************************************************************)
(* Reconciliation, all-repositories variant: syncIssue                     *)
(***************************************************************************)
\* issue.state === 'open' ? 'open' : 'closed'
GithubStatusOf(issue) == IF issue.state = "open" THEN "open" ELSE "closed"

\* issue.labels.map((l) => l.name)
LabelNames(issue) == [i \in 1..Len(issue.labels) |-> issue.labels[i].name]

\* a default that ignores the remote state
InitialWorkflowStatusAlwaysPending(githubStatus) == "pending"

\* workflowStatus of a row seen for the first time
InitialWorkflowStatus(githubStatus) ==
    IF githubStatus = "closed" THEN "end" ELSE "pending"

\* the data of prisma.issue.create in syncIssue
CreateData(issue, repository) ==
    [githubNumber |-> issue.number,
     repository |-> repository,
     title |-> issue.title,
     description |-> issue.body,
     statusGithub |-> GithubStatusOf(issue),
     workflowStatus |-> InitialWorkflowStatus(GithubStatusOf(issue)),
     url |-> issue.html_url,
     labels |-> LabelNames(issue),
     createdAtGithub |-> NewDate(issue.created_at),
     updatedAtGithub |-> NewDate(issue.updated_at)]

\* a rule without the branch for a closed issue
NewWorkflowStatusIgnoresClose(existing, githubStatus) ==
    IF existing.statusGithub = "closed" /\ githubStatus = "open" THEN "pending"
    ELSE existing.workflowStatus

\* a rule without the branch for a reopened issue
NewWorkflowStatusIgnoresReopen(existing, githubStatus) ==
    IF githubStatus = "closed" THEN "end" ELSE existing.workflowStatus

\* a rule that sets every open issue back to pending
NewWorkflowStatusRestartsOpen(existing, githubStatus) ==
    IF githubStatus = "closed" THEN "end" ELSE "pending"

\* newWorkflowStatus of syncIssue, from the row read by findUnique
NewWorkflowStatus(existing, githubStatus) ==
    IF githubStatus = "closed" THEN "end"
    ELSE IF existing.statusGithub = "closed" /\ githubStatus = "open" THEN "pending"
    ELSE existing.workflowStatus

\* an update that refreshes everything but the title
UpdateDataKeepsTitle(issue, existing) ==
    [description |-> issue.body,
     statusGithub |-> GithubStatusOf(issue),
     workflowStatus |-> NewWorkflowStatus(existing, GithubStatusOf(issue)),
     url |-> issue.html_url,
     labels |-> LabelNames(issue),
     updatedAtGithub |-> NewDate(issue.updated_at)]

\* the data of prisma.issue.update in syncIssue
UpdateData(issue, existing) ==
    [title |-> issue.title,
     description |-> issue.body,
     statusGithub |-> GithubStatusOf(issue),
     workflowStatus |-> NewWorkflowStatus(existing, GithubStatusOf(issue)),
     url |-> issue.html_url,
     labels |-> LabelNames(issue),
     updatedAtGithub |-> NewDate(issue.updated_at)]

(***************************************************************************)
(* Reconciliation, by-user variant: the loop body of syncUserAssignedIssues *)
(***************************************************************************)
\* issue.state === "open" ? "open" : "closed"
UserGithubStatusOf(issue) == IF issue.state = "open" THEN "open" ELSE "closed"

\* workflowStatus of a row seen for the first time
UserInitialWorkflowStatus(githubStatus) ==
    IF githubStatus = "closed" THEN "end" ELSE "pending"

\* a create that leaves the labels out
UserCreateDataDropsLabels(issue, repository) ==
    [githubNumber |-> issue.number,
     repository |-> repository,
     title |-> issue.title,
     description |-> issue.body,
     statusGithub |-> UserGithubStatusOf(issue),
     workflowStatus |-> UserInitialWorkflowStatus(UserGithubStatusOf(issue)),
     url |-> issue.html_url,
     labels |-> <<>>,
     createdAtGithub |-> NewDate(issue.created_at),
     updatedAtGithub |-> NewDate(issue.updated_at)]

\* the data of prisma.issue.create in the by-user loop
UserCreateData(issue, repository) ==
    [githubNumber |-> issue.number,
     repository |-> repository,
     title |-> issue.title,
     description |-> issue.body,
     statusGithub |-> UserGithubStatusOf(issue),
     workflowStatus |-> UserInitialWorkflowStatus(UserGithubStatusOf(issue)),
     url |-> issue.html_url,
     labels |-> LabelNames(issue),
     createdAtGithub |-> NewDate(issue.created_at),
     updatedAtGithub |-> NewDate(issue.updated_at)]

\* a rule that resets every open issue to pending
UserNewWorkflowStatusResetsOpen(existing, githubStatus) ==
    IF githubStatus = "closed" THEN "end" ELSE "pending"

\* newWorkflowStatus of the by-user loop, from the row read by findUnique
UserNewWorkflowStatus(existing, githubStatus) ==
    IF githubStatus = "closed" THEN "end"
    ELSE IF existing.statusGithub = "closed" /\ githubStatus = "open" THEN "pending"
    ELSE existing.workflowStatus

\* an update that also discards what the user entered at start
UserUpdateDataClearsContext(issue, existing) ==
    [title |-> issue.title,
     description |-> issue.body,
     statusGithub |-> UserGithubStatusOf(issue),
     workflowStatus |-> UserNewWorkflowStatus(existing, UserGithubStatusOf(issue)),
     url |-> issue.html_url,
     labels |-> LabelNames(issue),
     updatedAtGithub |-> NewDate(issue.updated_at),
     selectedContext |-> Null,
     prompt |-> Null]

\* the data of prisma.issue.update in the by-user loop
UserUpdateData(issue, existing) ==
    [title |-> issue.title,
     description |-> issue.body,
     statusGithub |-> UserGithubStatusOf(issue),
     workflowStatus |-> UserNewWorkflowStatus(existing, UserGithubStatusOf(issue)),
     url |-> issue.html_url,
     labels |-> LabelNames(issue),
     updatedAtGithub |-> NewDate(issue.updated_at)]

(***************************************************************************)
(* What the remote can answer                                              *)
(***************************************************************************)
\* "owner/name" of a fetch
RepoName(owner, repoName) == owner \o <<"/">> \o repoName

\* a page of n pull requests
PullRequests(r, n) == [i \in 1..n |-> PullRequest(100 + i, r)]

\* The remote holds four repositories: o/a with issue 1 (edited over time)
\* and a pull request, o/b with issues 1 and 2, o/c, large enough to fill
\* a page, with issue 1 among its pull requests, and o/d with one open issue.

\* pages shorter than perPage that the list endpoint of repository r can return
ShortPages(r) ==
    IF r = RepoA THEN
        {<<>>, <<PullRequest(3, r), RemoteIssue(1, r, "open", "v1")>>}
        \cup {<<RemoteIssue(1, r, st, v)>> : st \in States, v \in Versions}
    ELSE IF r = RepoB THEN
        {<<>>}
        \cup {<<RemoteIssue(1, r, st, "v1")>> : st \in States}
        \cup {<<RemoteIssue(1, r, st, "v1"), RemoteIssue(2, r, st2, "v1")>> :
                 st \in States, st2 \in States}
    ELSE IF r = RepoC THEN
        {<<>>} \cup {<<RemoteIssue(1, r, st, "v1")>> : st \in States}
    ELSE IF r = RepoD THEN
        {<<RemoteIssue(1, r, "open", "v1")>>}
    ELSE IF r = MonoRepo THEN
        {<<RemoteIssue(1, r, st, "v1")>> : st \in States}
    ELSE {<<>>}

\* pages of exactly perPage entries
FullPages(r) ==
    IF r = RepoC
    THEN {PullRequests(r, perPage),
          <<RemoteIssue(1, r, "open", "v1")>> \o PullRequests(r, perPage - 1)}
    ELSE {}

\* the responses fetch can resolve to for page `page` of repository r
PageAnswers(r, page) ==
    {[ok |-> FALSE, status |-> 500, data |-> <<>>]}
    \cup {[ok |-> TRUE, status |-> 200, data |-> d] : d \in ShortPages(r)}
    \cup (IF page <= MaxFullPages
          THEN {[ok |-> TRUE, status |-> 200, data |-> d] : d \in FullPages(r)}
          ELSE {})

\* the responses the search endpoint can resolve to (data.items)
SearchAnswers ==
    {[ok |-> FALSE, status |-> 500, data |-> <<>>]}
    \cup {[ok |-> TRUE, status |-> 200, data |-> d] :
            d \in {<<>>,
                   <<RemoteIssue(1, RepoB, "open", "v1"), RemoteIssue(1, RepoA, "open", "v1")>>}
                 \cup {<<PullRequest(3, RepoA), RemoteIssue(1, RepoA, st, v)>> :
                         st \in States, v \in Versions}}

\* process.env of the server
Text(s) == [t |-> "text", v |-> s]
TruthyText(x) == x.t = "text" /\ x.v # <<>>

ReposAB == RepoA \o <<",", " ">> \o RepoB
ReposBA == RepoB \o <<",">> \o RepoA
ReposBad == <<"nope", ",">> \o RepoB
ReposBD == RepoB \o <<",">> \o RepoD
ReposBadC == <<"nope", ",">> \o RepoC
ReposCBadB == RepoC \o <<",", "nope", ",">> \o RepoB

\* the configurations of the racing runs: complete, or one variable absent
RaceConfigs ==
    {[GH_TOKEN |-> Str("token"), GH_REPOS |-> Text(ReposBD)],
     [GH_TOKEN |-> Str("token"), GH_REPOS |-> Undefined],
     [GH_TOKEN |-> Undefined, GH_REPOS |-> Text(ReposBD)]}

EnvConfigs ==
    {[GH_TOKEN |-> Str("token"), GH_REPOS |-> Text(ReposAB)],
     [GH_TOKEN |-> Str("token"), GH_REPOS |-> Text(ReposBA)],
     [GH_TOKEN |-> Str("token"), GH_REPOS |-> Text(ReposBad)],
     [GH_TOKEN |-> Str("token"), GH_REPOS |-> Undefined],
     [GH_TOKEN |-> Undefined, GH_REPOS |-> Text(ReposAB)]}

(***************************************************************************)
(* Requests                                                                *)
(***************************************************************************)
Slots == {1, 2}

EmptyResult == [created |-> 0, updated |-> 0, errors |-> <<>>, issues |-> <<>>]

\* a slot with no request in it.  hist is the request's own record of the
\* remote and store calls it has completed, in order.
IdleProc ==
    [pc |-> "idle", op |-> "none", repos |-> <<>>, ri |-> 0, page |-> 0,
     issues |-> <<>>, ii |-> 0, existing |-> Null, result |-> EmptyResult,
     id |-> 0, body |-> Null, query |-> Null, where |-> Null, total |-> 0,
     ret |-> Null, hist |-> <<>>]

Throw(q, message) ==
    [q EXCEPT !.pc = "done", !.ret = [kind |-> "throw", message |-> message]]

Respond(q, status, payload) ==
    [q EXCEPT !.pc = "done", !.ret = [kind |-> "response", status |-> status, body |-> payload]]

\* hist: a store write of a sync run; before is the row as the store held it
WriteEvent(kind, issue, repo, before) ==
    [e |-> kind, number |-> issue.number, repo |-> repo, state |-> issue.state,
     before |-> before]

\* the error strings of the sync runs, as the parts they are built from
InvalidRepoError(repo) == [msg |-> "Invalid repo format", repo |-> repo]
FetchError(repo, status) ==
    [msg |-> "Error fetching issues from", repo |-> repo, status |-> status]
IssueError(number, repo, cause) ==
    [msg |-> "Error syncing issue", number |-> number, repo |-> repo, cause |-> cause]
UserFetchError(username, status) ==
    [msg |-> "Error fetching issues for user", username |-> username, status |-> status]

(***************************************************************************)
(* syncIssuesFromGitHub                                                    *)
(***************************************************************************)
\* const [owner, repoName] = repo.split('/'); undefined is the empty text here
OwnerOf(repo) == Split(repo, "/")[1]
RepoNameOf(repo) == IF Len(Split(repo, "/")) >= 2 THEN Split(repo, "/")[2] ELSE <<>>

\* !owner || !repoName
InvalidRepo(repo) == OwnerOf(repo) = <<>> \/ RepoNameOf(repo) = <<>>

\* the for-loop over repos, from entry q.ri on, up to its first await (the
\* fetch of page 1) or to the return of the result
RECURSIVE NextRepo(_)
NextRepo(q) ==
    IF q.ri > Len(q.repos)
    THEN [q EXCEPT !.pc = "done", !.ret = [kind |-> "return", value |-> q.result]]
    ELSE IF InvalidRepo(q.repos[q.ri])
    THEN NextRepo([q EXCEPT !.result.errors = Append(@, InvalidRepoError(q.repos[q.ri])),
                            !.ri = @ + 1])
    ELSE [q EXCEPT !.pc = "fetch", !.page = 1, !.issues = <<>>, !.ii = 0]

\* the for-loop over issues, from entry q.ii on, up to its first await (the
\* findUnique of syncIssue) or on to the next repository
NextIssue(q) ==
    IF q.ii > Len(q.issues)
    THEN NextRepo([q EXCEPT !.ri = @ + 1, !.issues = <<>>, !.ii = 0])
    ELSE [q EXCEPT !.pc = "find"]

\* a run without the catch around syncIssue: the error reaches the catch around
\* the repository, and the rest of its issues is skipped
OnIssueFailureSkipsRepo(q, number, repo, cause) ==
    NextRepo([q EXCEPT !.result.errors = Append(@, FetchError(repo, cause)),
                       !.existing = Null, !.issues = <<>>, !.ii = 0, !.ri = @ + 1])

\* a catch around syncIssue that swallows the error without recording it
OnIssueFailureSilent(q, number, repo, cause) ==
    NextIssue([q EXCEPT !.existing = Null, !.ii = @ + 1])

\* the catch around syncIssue: the error is recorded and the loop goes on with
\* the next issue
OnIssueFailure(q, number, repo, cause) ==
    NextIssue([q EXCEPT !.result.errors = Append(@, IssueError(number, repo, cause)),
                        !.existing = Null, !.ii = @ + 1])

\* a run without the catch around the fetch: the error leaves the run
OnFetchFailureAborts(q, repo, status) == Throw(q, "GitHub API error")

\* a fetch that hands over the issues of the pages it had received when a
\* later page failed: the error is recorded and those issues are synced
OnFetchFailureKeepsFetched(q, repo, status) ==
    NextIssue([q EXCEPT !.result.errors = Append(@, FetchError(repo, status)), !.ii = 1])

\* the catch around the fetch of one repository: the error is recorded and the
\* loop goes on with the next repository
OnFetchFailure(q, repo, status) ==
    NextRepo([q EXCEPT !.result.errors = Append(@, FetchError(repo, status)),
                       !.issues = <<>>, !.ri = @ + 1])

\* data.filter((item) => !('pull_request' in item))
IsIssue(item) == ~item.pull_request
IssuesOnly(data) == SelectSeq(data, IsIssue)

\* a loop without the break
LastPageNever(data) == FALSE

\* a loop that stops on a page with fewer than perPage issues
LastPageByIssues(data) == Len(IssuesOnly(data)) < perPage

\* if (data.length < perPage) break
LastPage(data) == Len(data) < perPage

\* a POST /api/sync-issues arrives: the configuration checks, then the loop
SyncAllCall(p) ==
    /\ proc[p].pc = "idle"
    /\ served < MaxRequests
    /\ served' = served + 1
    /\ LET q == [IdleProc EXCEPT !.op = "syncAll"]
       IN  proc' = [proc EXCEPT ![p] =
                IF ~Truthy(env.GH_TOKEN)
                THEN Throw(q, "GH_TOKEN environment variable is not set")
                ELSE IF ~TruthyText(env.GH_REPOS)
                THEN Throw(q, "GH_REPOS environment variable is not set")
                ELSE NextRepo([q EXCEPT !.repos = ParseRepos(env.GH_REPOS.v), !.ri = 1])]
    /\ UNCHANGED <<store, nextId, env>>

\* fetchIssuesFromRepo: the fetch of one page resolves
FetchResponse(p) ==
    /\ proc[p].pc = "fetch"
    /\ proc[p].op = "syncAll"
    /\ LET q == proc[p]
           repo == q.repos[q.ri]
       IN  \E resp \in PageAnswers(RepoName(OwnerOf(repo), RepoNameOf(repo)), q.page) :
             LET h == Append(q.hist, [e |-> "fetch", repo |-> repo, page |-> q.page,
                                      ok |-> resp.ok, raw |-> Len(resp.data),
                                      kept |-> Len(IssuesOnly(resp.data))])
                 acc == q.issues \o IssuesOnly(resp.data)
             IN  proc' = [proc EXCEPT ![p] =
                    IF ~resp.ok
                    THEN OnFetchFailure([q EXCEPT !.hist = h], repo, resp.status)
                    ELSE IF LastPage(resp.data)
                    THEN NextIssue([q EXCEPT !.hist = h, !.issues = acc, !.ii = 1])
                    ELSE [q EXCEPT !.hist = h, !.issues = acc, !.page = @ + 1]]
    /\ UNCHANGED <<store, nextId, env, served>>

\* syncIssue: findUnique resolves and the create or the update is issued
FindResponse(p) ==
    /\ proc[p].pc = "find"
    /\ proc[p].op = "syncAll"
    /\ LET q == proc[p]
           issue == q.issues[q.ii]
           repo == q.repos[q.ri]
           existing == FindByKey(store, issue.number, repo)
       IN  proc' = [proc EXCEPT ![p] =
                [q EXCEPT !.existing = existing,
                          !.pc = IF existing = Null THEN "create" ELSE "update"]]
    /\ UNCHANGED <<store, nextId, env, served>>

\* syncIssue: prisma.issue.create resolves or rejects
CreateResponse(p) ==
    /\ proc[p].pc = "create"
    /\ proc[p].op = "syncAll"
    /\ LET q == proc[p]
           issue == q.issues[q.ii]
           repo == q.repos[q.ri]
           data == CreateData(issue, repo)
       IN  IF UniqueViolation(store, data)
           THEN /\ proc' = [proc EXCEPT ![p] =
                    OnIssueFailure(
                        [q EXCEPT !.hist = Append(@, [e |-> "createFailed", number |-> issue.number, repo |-> repo])],
                        issue.number, repo, "Unique constraint failed")]
                /\ UNCHANGED <<store, nextId>>
           ELSE /\ store' = Created(store, nextId, data)
                /\ nextId' = nextId + 1
                /\ proc' = [proc EXCEPT ![p] =
                    NextIssue([q EXCEPT
                        !.hist = Append(@, WriteEvent("create", issue, repo, Null)),
                        !.result.created = @ + 1,
                        !.existing = Null, !.ii = @ + 1])]
    /\ UNCHANGED <<env, served>>

\* syncIssue: prisma.issue.update resolves or rejects
UpdateResponse(p) ==
    /\ proc[p].pc = "update"
    /\ proc[p].op = "syncAll"
    /\ LET q == proc[p]
           issue == q.issues[q.ii]
           repo == q.repos[q.ri]
           data == UpdateData(issue, q.existing)
       IN  IF FindById(store, q.existing.id) = Null
           THEN /\ proc' = [proc EXCEPT ![p] =
                    OnIssueFailure(
                        [q EXCEPT !.hist = Append(@, [e |-> "updateFailed", number |-> issue.number, repo |-> repo])],
                        issue.number, repo, "Record to update not found")]
                /\ UNCHANGED store
           ELSE /\ store' = Updated(store, q.existing.id, data)
                /\ proc' = [proc EXCEPT ![p] =
                    NextIssue([q EXCEPT
                        !.hist = Append(@, WriteEvent("update", issue, repo, FindById(store, q.existing.id))),
                        !.result.updated = @ + 1,
                        !.existing = Null, !.ii = @ + 1])]
    /\ UNCHANGED <<nextId, env, served>>

\* the caller has the return value, the thrown error or the response
Finish(p) ==
    /\ proc[p].pc = "done"
    /\ proc' = [proc EXCEPT ![p] = IdleProc]
    /\ UNCHANGED <<store, nextId, env, served>>

(***************************************************************************)
(* syncUserAssignedIssues                                                  *)
(***************************************************************************)
\* data.items.filter((item) => !item.pull_request)
UserIsIssue(item) == ~item.pull_request
UserIssuesOnly(items) == SelectSeq(items, UserIsIssue)

\* the for-loop over fetchResult.issues, from entry q.ii on, up to its first
\* await (findUnique) or to the return of syncResult
NextUserIssue(q) ==
    IF q.ii > Len(q.issues)
    THEN [q EXCEPT !.pc = "done", !.ret = [kind |-> "return", value |-> q.result]]
    ELSE [q EXCEPT !.pc = "userFind"]

\* a POST /api/sync-issues-by-user arrives: the token check, then the search
SyncUserCall(p) ==
    /\ proc[p].pc = "idle"
    /\ served < MaxRequests
    /\ served' = served + 1
    /\ LET q == [IdleProc EXCEPT !.op = "syncUser"]
       IN  proc' = [proc EXCEPT ![p] =
                IF ~Truthy(env.GH_TOKEN)
                THEN Throw(q, "GH_TOKEN environment variable is not set")
                ELSE [q EXCEPT !.pc = "search"]]
    /\ UNCHANGED <<store, nextId, env>>

\* fetchUserAssignedIssues: the search resolves; a failure is caught there and
\* handed on in fetchResult.errors
SearchResponse(p) ==
    /\ proc[p].pc = "search"
    /\ proc[p].op = "syncUser"
    /\ LET q == proc[p]
       IN  \E resp \in SearchAnswers :
             LET h == Append(q.hist, [e |-> "search", ok |-> resp.ok])
             IN  proc' = [proc EXCEPT ![p] =
                    IF ~resp.ok
                    THEN NextUserIssue([q EXCEPT !.hist = h,
                            !.result.errors = <<UserFetchError("ggarciaclip", resp.status)>>,
                            !.issues = <<>>, !.ii = 1])
                    ELSE NextUserIssue([q EXCEPT !.hist = h,
                            !.issues = UserIssuesOnly(resp.data), !.ii = 1])]
    /\ UNCHANGED <<store, nextId, env, served>>

\* findUnique resolves and the create or the update is issued
UserFindResponse(p) ==
    /\ proc[p].pc = "userFind"
    /\ proc[p].op = "syncUser"
    /\ LET q == proc[p]
           issue == q.issues[q.ii]
           repository == extractRepoFromUrl(issue.repository_url)
           existing == FindByKey(store, issue.number, repository)
       IN  proc' = [proc EXCEPT ![p] =
                [q EXCEPT !.existing = existing,
                          !.pc = IF existing = Null THEN "userCreate" ELSE "userUpdate"]]
    /\ UNCHANGED <<store, nextId, env, served>>

\* prisma.issue.create resolves or rejects
UserCreateResponse(p) ==
    /\ proc[p].pc = "userCreate"
    /\ proc[p].op = "syncUser"
    /\ LET q == proc[p]
           issue == q.issues[q.ii]
           repository == extractRepoFromUrl(issue.repository_url)
           data == UserCreateData(issue, repository)
       IN  IF UniqueViolation(store, data)
           THEN /\ proc' = [proc EXCEPT ![p] =
                    NextUserIssue([q EXCEPT
                        !.hist = Append(@, [e |-> "createFailed", number |-> issue.number, repo |-> repository]),
                        !.result.errors = Append(@, IssueError(issue.number, repository, "Unique constraint failed")),
                        !.existing = Null, !.ii = @ + 1])]
                /\ UNCHANGED <<store, nextId>>
           ELSE /\ store' = Created(store, nextId, data)
                /\ nextId' = nextId + 1
                /\ proc' = [proc EXCEPT ![p] =
                    NextUserIssue([q EXCEPT
                        !.hist = Append(@, WriteEvent("create", issue, repository, Null)),
                        !.result.created = @ + 1,
                        !.result.issues = Append(@, NewRow(nextId, data)),
                        !.existing = Null, !.ii = @ + 1])]
    /\ UNCHANGED <<env, served>>

\* prisma.issue.update resolves or rejects
UserUpdateResponse(p) ==
    /\ proc[p].pc = "userUpdate"
    /\ proc[p].op = "syncUser"
    /\ LET q == proc[p]
           issue == q.issues[q.ii]
           repository == extractRepoFromUrl(issue.repository_url)
           data == UserUpdateData(issue, q.existing)
       IN  IF FindById(store, q.existing.id) = Null
           THEN /\ proc' = [proc EXCEPT ![p] =
                    NextUserIssue([q EXCEPT
                        !.hist = Append(@, [e |-> "updateFailed", number |-> issue.number, repo |-> repository]),
                        !.result.errors = Append(@, IssueError(issue.number, repository, "Record to update not found")),
                        !.existing = Null, !.ii = @ + 1])]
                /\ UNCHANGED store
           ELSE /\ store' = Updated(store, q.existing.id, data)
                /\ proc' = [proc EXCEPT ![p] =
                    NextUserIssue([q EXCEPT
                        !.hist = Append(@, WriteEvent("update", issue, repository, FindById(store, q.existing.id))),
                        !.result.updated = @ + 1,
                        !.result.issues = Append(@, Patched(FindById(store, q.existing.id), data)),
                        !.existing = Null, !.ii = @ + 1])]
    /\ UNCHANGED <<nextId, env, served>>

(***************************************************************************)
(* POST /api/issues/:id/start                                              *)
(***************************************************************************)
\* the request bodies: one that is not JSON, objects whose selectedContext is
\* absent, empty or not a string, and objects with a context and a prompt that
\* is absent, empty or given
StartBodies ==
    {[json |-> FALSE, selectedContext |-> Undefined, prompt |-> Undefined]}
    \cup {[json |-> TRUE, selectedContext |-> c, prompt |-> Undefined] :
            c \in {Undefined, Str(""), Num(7)}}
    \cup {[json |-> TRUE, selectedContext |-> Str("checkout_api"), prompt |-> t] :
            t \in {Undefined, Str(""), Str("fix the bug")}}

\* a route that takes any selectedContext
ContextMissingNever(body) == FALSE

\* !body.selectedContext || typeof body.selectedContext !== "string"
ContextMissing(body) ==
    ~Truthy(body.selectedContext) \/ TypeOf(body.selectedContext) # "string"

\* the checks without the one on workflowStatus
StartRefusalNoPendingCheck(existingIssue) ==
    IF existingIssue = Null
    THEN [status |-> 404, error |-> "Issue not found"]
    ELSE IF existingIssue.statusGithub # "open"
    THEN [status |-> 400, error |-> "Cannot start a closed issue"]
    ELSE [status |-> 0, error |-> ""]

\* the checks without the one on statusGithub
StartRefusalNoClosedCheck(existingIssue) ==
    IF existingIssue = Null
    THEN [status |-> 404, error |-> "Issue not found"]
    ELSE IF existingIssue.workflowStatus # "pending"
    THEN [status |-> 400, error |-> "Issue is already in process or ended"]
    ELSE [status |-> 0, error |-> ""]

\* the checks with workflowStatus looked at before statusGithub
StartRefusalPendingFirst(existingIssue) ==
    IF existingIssue = Null
    THEN [status |-> 404, error |-> "Issue not found"]
    ELSE IF existingIssue.workflowStatus # "pending"
    THEN [status |-> 400, error |-> "Issue is already in process or ended"]
    ELSE IF existingIssue.statusGithub # "open"
    THEN [status |-> 400, error |-> "Cannot start a closed issue"]
    ELSE [status |-> 0, error |-> ""]

\* the checks on the row that findUnique returned: the status and message of
\* the refusal, or status 0 when the issue may start
StartRefusal(existingIssue) ==
    IF existingIssue = Null
    THEN [status |-> 404, error |-> "Issue not found"]
    ELSE IF existingIssue.statusGithub # "open"
    THEN [status |-> 400, error |-> "Cannot start a closed issue"]
    ELSE IF existingIssue.workflowStatus # "pending"
    THEN [status |-> 400, error |-> "Issue is already in process or ended"]
    ELSE [status |-> 0, error |-> ""]

\* the data of prisma.issue.update in the start route
StartData(body) ==
    [selectedContext |-> body.selectedContext,
     prompt |-> OrNull(body.prompt),
     workflowStatus |-> "in_process"]

\* the request arrives: the body is parsed and selectedContext validated
StartCall(p) ==
    /\ proc[p].pc = "idle"
    /\ served < MaxRequests
    /\ served' = served + 1
    /\ \E id \in 0..(nextId - 1), body \in StartBodies :
         LET q == [IdleProc EXCEPT !.op = "start", !.id = id, !.body = body]
         IN  proc' = [proc EXCEPT ![p] =
                IF ~body.json
                THEN Respond(q, 500, [error |-> "Failed to start issue"])
                ELSE IF ContextMissing(body)
                THEN Respond(q, 400, [error |-> "selectedContext is required"])
                ELSE [q EXCEPT !.pc = "startFind"]]
    /\ UNCHANGED <<store, nextId, env>>

\* findUnique resolves: a refusal, or the update is issued
StartFindResponse(p) ==
    /\ proc[p].pc = "startFind"
    /\ proc[p].op = "start"
    /\ LET q == proc[p]
           existingIssue == FindById(store, q.id)
           refusal == StartRefusal(existingIssue)
           q1 == [q EXCEPT !.existing = existingIssue,
                           !.hist = Append(@, [e |-> "lookup", id |-> q.id])]
       IN  proc' = [proc EXCEPT ![p] =
                IF refusal.status # 0
                THEN Respond(q1, refusal.status, [error |-> refusal.error])
                ELSE [q1 EXCEPT !.pc = "startUpdate"]]
    /\ UNCHANGED <<store, nextId, env, served>>

\* prisma.issue.update resolves or rejects
StartUpdateResponse(p) ==
    /\ proc[p].pc = "startUpdate"
    /\ proc[p].op = "start"
    /\ LET q == proc[p]
       IN  IF FindById(store, q.id) = Null
           THEN /\ proc' = [proc EXCEPT ![p] =
                        Respond(q, 500, [error |-> "Failed to start issue"])]
                /\ UNCHANGED store
           ELSE /\ store' = Updated(store, q.id, StartData(q.body))
                /\ proc' = [proc EXCEPT ![p] =
                        Respond([q EXCEPT !.hist = Append(@, [e |-> "start", id |-> q.id,
                                                                 before |-> FindById(store, q.id)])],
                                200, Patched(FindById(store, q.id), StartData(q.body)))]
    /\ UNCHANGED <<nextId, env, served>>

(***************************************************************************)
(* GET /api/issues                                                         *)
(***************************************************************************)
NaN == [t |-> "NaN"]

\* the value of a decimal digit, -1 for any other character
DigitValue(c) ==
    CASE c = "0" -> 0 [] c = "1" -> 1 [] c = "2" -> 2 [] c = "3" -> 3 [] c = "4" -> 4
      [] c = "5" -> 5 [] c = "6" -> 6 [] c = "7" -> 7 [] c = "8" -> 8 [] c = "9" -> 9
      [] OTHER -> -1

\* the number read from the digits at the front of s, after the digits read
\* so far gave acc; stops at the first character that is no digit
RECURSIVE LeadingDigits(_, _)
LeadingDigits(s, acc) ==
    IF s = <<>> \/ DigitValue(Head(s)) < 0 THEN acc
    ELSE LeadingDigits(Tail(s), 10 * acc + DigitValue(Head(s)))

\* parseInt(s) of a string given as its characters: leading blanks and a sign
\* are skipped, the digits up to the first other character are read, and a
\* string without a digit there gives NaN
RECURSIVE parseInt(_)
parseInt(s) ==
    IF s = <<>> THEN NaN
    ELSE IF Head(s) = " " THEN parseInt(Tail(s))
    ELSE LET negative == Head(s) = "-"
             digits == IF Head(s) \in {"-", "+"} THEN Tail(s) ELSE s
         IN  IF digits = <<>> \/ DigitValue(Head(digits)) < 0 THEN NaN
             ELSE Num(IF negative THEN 0 - LeadingDigits(digits, 0)
                      ELSE LeadingDigits(digits, 0))

\* searchParams.get(name) || fallback
OrDefault(param, fallback) == IF TruthyText(param) THEN param.v ELSE fallback

\* the values of the enums, in the order of their declaration
WorkflowStatuses == <<"pending", "in_process", "end">>
GithubStatuses == <<"open", "closed">>

\* array.includes(value)
Includes(array, value) == \E i \in 1..Len(array) : array[i] = value

\* a where clause that applies whatever status filter is given
WhereOfUnchecked(query) ==
    [repository |-> IF TruthyText(query.repository) THEN query.repository ELSE Undefined,
     workflowStatus |-> IF Truthy(query.workflowStatus) THEN query.workflowStatus ELSE Undefined,
     statusGithub |-> IF Truthy(query.statusGithub) THEN query.statusGithub ELSE Undefined]

\* the where clause built from the query: a filter is set when its parameter
\* is given and, for the two enums, is one of the enum's values
WhereOf(query) ==
    [repository |-> IF TruthyText(query.repository) THEN query.repository ELSE Undefined,
     workflowStatus |->
        IF Truthy(query.workflowStatus) /\ Includes(WorkflowStatuses, query.workflowStatus.v)
        THEN query.workflowStatus ELSE Undefined,
     statusGithub |->
        IF Truthy(query.statusGithub) /\ Includes(GithubStatuses, query.statusGithub.v)
        THEN query.statusGithub ELSE Undefined]

\* the where clause has a value no column of the enum type can be compared to
InvalidWhere(where) ==
    \/ where.workflowStatus.t # "undefined" /\ ~Includes(WorkflowStatuses, where.workflowStatus.v)
    \/ where.statusGithub.t # "undefined" /\ ~Includes(GithubStatuses, where.statusGithub.v)

\* the rows of a table that a where clause selects
Matching(s, where) ==
    {row \in s :
        /\ where.repository.t = "undefined" \/ row.repository = where.repository.v
        /\ where.workflowStatus.t = "undefined" \/ row.workflowStatus = where.workflowStatus.v
        /\ where.statusGithub.t = "undefined" \/ row.statusGithub = where.statusGithub.v}

\* the place of a workflowStatus in the order of its enum
RankOf(workflowStatus) ==
    CHOOSE i \in 1..Len(WorkflowStatuses) : WorkflowStatuses[i] = workflowStatus

\* orderBy: [{ workflowStatus: "asc" }, { updatedAtGithub: "desc" }]; the
\* order of rows equal in both is the database's choice, here by id, upwards
\* or downwards
ComesBefore(a, b, ties) ==
    \/ RankOf(a.workflowStatus) < RankOf(b.workflowStatus)
    \/ /\ a.workflowStatus = b.workflowStatus
       /\ \/ a.updatedAtGithub > b.updatedAtGithub
          \/ /\ a.updatedAtGithub = b.updatedAtGithub
             /\ IF ties = "up" THEN a.id < b.id ELSE a.id > b.id

\* a page that ignores skip and always starts at the first row
PageOfRowsFromStart(rows, ties, skip, take) ==
    LET place == [a \in rows |-> Cardinality({b \in rows : ComesBefore(b, a, ties)})]
        n == IF Cardinality(rows) < take THEN Cardinality(rows) ELSE take
    IN  [i \in 1..n |-> CHOOSE a \in rows : place[a] = i - 1]

\* findMany's skip and take over the ordered rows
PageOfRows(rows, ties, skip, take) ==
    LET place == [a \in rows |-> Cardinality({b \in rows : ComesBefore(b, a, ties)})]
        left == Cardinality(rows) - skip
        n == IF left < 0 THEN 0 ELSE IF left < take THEN left ELSE take
    IN  [i \in 1..n |-> CHOOSE a \in rows : place[a] = skip + i - 1]

\* Math.ceil(total / limit); a division by zero gives Infinity or NaN, which
\* JSON writes as null
TotalPages(total, limit) ==
    IF limit = 0 THEN Null ELSE Num((total + limit - 1) \div limit)

\* the query strings of the list requests
PageParams == {Null, Text(<<"1">>), Text(<<"2">>), Text(<<"3">>), Text(<<"0">>), Text(<<"x">>)}
LimitParams == {Null, Text(<<"2", "0">>), Text(<<"7">>), Text(<<"0">>)}
RepositoryParams == {Null, Text(RepoC), Text(RepoD)}
WorkflowStatusParams == {Null, Str(""), Str("pending"), Str("end"), Str("done")}
StatusGithubParams == {Null, Str("open"), Str("OPEN")}

Queries ==
    [page : PageParams, limit : LimitParams, repository : RepositoryParams,
     workflowStatus : WorkflowStatusParams, statusGithub : StatusGithubParams]

\* the request arrives: the parameters are read, the where clause is built
\* and the count is issued
ListCall(p) ==
    /\ proc[p].pc = "idle"
    /\ served < MaxListRequests
    /\ served' = served + 1
    /\ \E query \in Queries :
         proc' = [proc EXCEPT ![p] =
            [IdleProc EXCEPT !.op = "list", !.pc = "count", !.query = query,
                             !.where = WhereOf(query)]]
    /\ UNCHANGED <<store, nextId, env>>

\* prisma.issue.count({ where }) resolves, and findMany is issued
CountResponse(p) ==
    /\ proc[p].pc = "count"
    /\ proc[p].op = "list"
    /\ LET q == proc[p]
       IN  proc' = [proc EXCEPT ![p] =
              IF InvalidWhere(q.where)
              THEN Respond(q, 500, [error |-> "Failed to fetch issues"])
              ELSE [q EXCEPT !.pc = "findMany",
                             !.total = Cardinality(Matching(store, q.where)),
                             !.hist = Append(@, [e |-> "count",
                                                 n |-> Cardinality(Matching(store, q.where))])]]
    /\ UNCHANGED <<store, nextId, env, served>>

\* prisma.issue.findMany resolves and the response is built; a skip or take
\* that is no number, or a negative skip, is rejected by the client
FindManyResponse(p) ==
    /\ proc[p].pc = "findMany"
    /\ proc[p].op = "list"
    /\ LET q == proc[p]
           page == parseInt(OrDefault(q.query.page, <<"1">>))
           limit == parseInt(OrDefault(q.query.limit, <<"2", "0">>))
       IN  IF page.t = "NaN" \/ limit.t = "NaN"
           THEN proc' = [proc EXCEPT ![p] = Respond(q, 500, [error |-> "Failed to fetch issues"])]
           ELSE IF (page.n - 1) * limit.n < 0
           THEN proc' = [proc EXCEPT ![p] = Respond(q, 500, [error |-> "Failed to fetch issues"])]
           ELSE \E ties \in {"up", "down"} :
                  LET issues == PageOfRows(Matching(store, q.where), ties,
                                           (page.n - 1) * limit.n, limit.n)
                  IN  proc' = [proc EXCEPT ![p] =
                         Respond([q EXCEPT !.hist = Append(@, [e |-> "findMany",
                                      n |-> Cardinality(Matching(store, q.where))])],
                                 200,
                                 [issues |-> issues,
                                  pagination |-> [page |-> page.n, limit |-> limit.n,
                                                  total |-> q.total,
                                                  totalPages |-> TotalPages(q.total, limit.n)]])]
    /\ UNCHANGED <<store, nextId, env, served>>

(***************************************************************************)
(* prisma/seed.ts: the script that loads the sample rows                   *)
(***************************************************************************)
sampleIssues ==
    <<[githubNumber |-> 1,
       repository |-> MonoRepo,
       title |-> "[Feature] Add payment validation",
       description |-> Str("Implement validation for payment amounts before processing"),
       statusGithub |-> "open",
       workflowStatus |-> "pending",
       url |-> WebBase \o MonoRepo \o <<"/", "issues", "/", "1">>,
       labels |-> <<"feature", "payment">>,
       createdAtGithub |-> NewDate("2024-12-01"),
       updatedAtGithub |-> NewDate("2024-12-01")],
      [githubNumber |-> 2,
       repository |-> MonoRepo,
       title |-> "[Bug] Fix session timeout",
       description |-> Str("Session expires too quickly on mobile devices"),
       statusGithub |-> "open",
       workflowStatus |-> "in_process",
       url |-> WebBase \o MonoRepo \o <<"/", "issues", "/", "2">>,
       labels |-> <<"bug", "mobile">>,
       createdAtGithub |-> NewDate("2024-11-28"),
       updatedAtGithub |-> NewDate("2024-12-02")],
      [githubNumber |-> 3,
       repository |-> CheckoutApiRepo,
       title |-> "[Refactor] Improve error handling",
       description |-> Str("Refactor error handling to use centralized error codes"),
       statusGithub |-> "closed",
       workflowStatus |-> "end",
       url |-> WebBase \o CheckoutApiRepo \o <<"/", "issues", "/", "3">>,
       labels |-> <<"refactor">>,
       createdAtGithub |-> NewDate("2024-11-20"),
       updatedAtGithub |-> NewDate("2024-11-30")]>>

\* main() starts: the loop over sampleIssues reaches its first upsert
SeedCall(p) ==
    /\ proc[p].pc = "idle"
    /\ served < MaxRequests
    /\ served' = served + 1
    /\ proc' = [proc EXCEPT ![p] = [IdleProc EXCEPT !.op = "seed", !.pc = "upsert", !.ii = 1]]
    /\ UNCHANGED <<store, nextId, env>>

\* prisma.issue.upsert({ where, update: issue, create: issue }) resolves: the
\* row with the key is overwritten, or a row is inserted; then the next sample
SeedUpsert(p) ==
    /\ proc[p].pc = "upsert"
    /\ proc[p].op = "seed"
    /\ LET q == proc[p]
           issue == sampleIssues[q.ii]
           row == FindByKey(store, issue.githubNumber, issue.repository)
           h == Append(q.hist, [e |-> "upsert", number |-> issue.githubNumber,
                                repo |-> issue.repository, before |-> row])
       IN  /\ IF row = Null
              THEN /\ store' = Created(store, nextId, issue)
                   /\ nextId' = nextId + 1
              ELSE /\ store' = Updated(store, row.id, issue)
                   /\ UNCHANGED nextId
           /\ proc' = [proc EXCEPT ![p] =
                  IF q.ii < Len(sampleIssues)
                  THEN [q EXCEPT !.hist = h, !.ii = @ + 1]
                  ELSE [q EXCEPT !.hist = h, !.pc = "done",
                                 !.ret = [kind |-> "return", value |-> Null]]]
    /\ UNCHANGED <<env, served>>

(***************************************************************************)
(* Specifications                                                          *)
(***************************************************************************)
Init ==
    /\ store = {}
    /\ nextId = 1
    /\ env \in EnvConfigs
    /\ proc = [p \in Slots |-> IdleProc]
    /\ served = 0

\* one request at a time
Next ==
    \/ SyncAllCall(1)
    \/ FetchResponse(1)
    \/ FindResponse(1)
    \/ CreateResponse(1)
    \/ UpdateResponse(1)
    \/ SyncUserCall(1)
    \/ SearchResponse(1)
    \/ UserFindResponse(1)
    \/ UserCreateResponse(1)
    \/ UserUpdateResponse(1)
    \/ StartCall(1)
    \/ StartFindResponse(1)
    \/ StartUpdateResponse(1)
    \/ Finish(1)

Spec == Init /\ [][Next]_vars

\* two requests at a time, their remote and store calls interleaved: any
\* request in slot 1 and a sync run over the configured repositories in slot 2.
\* The server is configured with the repository o/b.
InitConc ==
    /\ store = {}
    /\ nextId = 1
    /\ env = [GH_TOKEN |-> Str("token"), GH_REPOS |-> Text(RepoB)]
    /\ proc = [p \in Slots |-> IdleProc]
    /\ served = 0

NextConc ==
    \/ \E p \in Slots :
          \/ SyncAllCall(p)
          \/ FetchResponse(p)
          \/ FindResponse(p)
          \/ CreateResponse(p)
          \/ UpdateResponse(p)
          \/ Finish(p)
    \/ SyncUserCall(1)
    \/ SearchResponse(1)
    \/ UserFindResponse(1)
    \/ UserCreateResponse(1)
    \/ UserUpdateResponse(1)
    \/ StartCall(1)
    \/ StartFindResponse(1)
    \/ StartUpdateResponse(1)

SpecConc == InitConc /\ [][NextConc]_vars

\* sync runs, one at a time, of a server configured with the repository o/c,
\* whose issue list fills pages
InitPages ==
    /\ store = {}
    /\ nextId = 1
    /\ env = [GH_TOKEN |-> Str("token"), GH_REPOS |-> Text(RepoC)]
    /\ proc = [p \in Slots |-> IdleProc]
    /\ served = 0

NextPages ==
    \/ SyncAllCall(1)
    \/ FetchResponse(1)
    \/ FindResponse(1)
    \/ CreateResponse(1)
    \/ UpdateResponse(1)
    \/ Finish(1)

SpecPages == InitPages /\ [][NextPages]_vars

\* what the columns written by start can hold: nothing, or a started issue's
\* context without or with a prompt
StartedColumns ==
    {[selectedContext |-> Null, prompt |-> Null, workflowStatus |-> "pending"],
     [selectedContext |-> Str("checkout_api"), prompt |-> Null, workflowStatus |-> "in_process"],
     [selectedContext |-> Str("checkout_api"), prompt |-> Str("fix the bug"),
      workflowStatus |-> "in_process"]}

\* the rows the table can hold for issue 1 of o/a after earlier requests: as
\* created from an open or a closed issue, as started, as closed after the
\* start, and as reopened after that
StoredRows ==
    LET asOpen == NewRow(1, CreateData(RemoteIssue(1, RepoA, "open", "v1"), RepoA))
        asClosed == NewRow(1, CreateData(RemoteIssue(1, RepoA, "closed", "v1"), RepoA))
    IN  {asOpen, asClosed}
        \cup {Patched(asOpen, c) : c \in StartedColumns}
        \cup {Patched(asClosed, [c EXCEPT !.workflowStatus = "end"]) : c \in StartedColumns}
        \cup {Patched(asOpen, [c EXCEPT !.workflowStatus = "pending"]) : c \in StartedColumns}

\* one sync run of either variant on a table that is empty or holds one such
\* row; the server is configured with the repository o/a
InitStored ==
    /\ store \in {{}} \cup {{row} : row \in StoredRows}
    /\ nextId = Cardinality(store) + 1
    /\ env = [GH_TOKEN |-> Str("token"), GH_REPOS |-> Text(RepoA)]
    /\ proc = [p \in Slots |-> IdleProc]
    /\ served = 0

NextStored ==
    \/ served < MaxStoredRequests /\ SyncAllCall(1)
    \/ FetchResponse(1)
    \/ FindResponse(1)
    \/ CreateResponse(1)
    \/ UpdateResponse(1)
    \/ served < MaxStoredRequests /\ SyncUserCall(1)
    \/ SearchResponse(1)
    \/ UserFindResponse(1)
    \/ UserCreateResponse(1)
    \/ UserUpdateResponse(1)
    \/ Finish(1)

SpecStored == InitStored /\ [][NextStored]_vars

\* row i of a table filled by earlier requests: every third issue is closed,
\* the others are open and one half of them started; the issues were last
\* edited on one of two days, and every fifth is of o/d, the others of o/c
ListRow(i) ==
    LET repo == IF i % 5 = 0 THEN RepoD ELSE RepoC
        issue == RemoteIssue(i, repo, IF i % 3 = 0 THEN "closed" ELSE "open",
                             IF i % 2 = 0 THEN "v1" ELSE "v2")
    IN  IF i % 3 = 1
        THEN Patched(NewRow(i, CreateData(issue, repo)),
                     [selectedContext |-> Str("checkout_api"), prompt |-> Null,
                      workflowStatus |-> "in_process"])
        ELSE NewRow(i, CreateData(issue, repo))

\* the sizes of the tables the list requests are served from
TableSizes == {0, 3, 21, 45}

\* list requests on a table of one of these sizes
InitList ==
    /\ \E n \in TableSizes :
          /\ store = {ListRow(i) : i \in 1..n}
          /\ nextId = n + 1
    /\ env = [GH_TOKEN |-> Str("token"), GH_REPOS |-> Text(RepoC)]
    /\ proc = [p \in Slots |-> IdleProc]
    /\ served = 0

NextList ==
    \/ ListCall(1)
    \/ CountResponse(1)
    \/ FindManyResponse(1)
    \/ Finish(1)

SpecList == InitList /\ [][NextList]_vars

\* the server, configured with the repository of the first sample rows,
\* serving one request at a time in slot 1, and the seed script in slot 2
InitSeed ==
    /\ store = {}
    /\ nextId = 1
    /\ env = [GH_TOKEN |-> Str("token"), GH_REPOS |-> Text(MonoRepo)]
    /\ proc = [p \in Slots |-> IdleProc]
    /\ served = 0

NextSeed ==
    \/ SyncAllCall(1)
    \/ FetchResponse(1)
    \/ FindResponse(1)
    \/ CreateResponse(1)
    \/ UpdateResponse(1)
    \/ StartCall(1)
    \/ StartFindResponse(1)
    \/ StartUpdateResponse(1)
    \/ Finish(1)
    \/ SeedCall(2)
    \/ SeedUpsert(2)
    \/ Finish(2)

SpecSeed == InitSeed /\ [][NextSeed]_vars

\* two sync runs at a time, their remote and store calls interleaved: a run of
\* either variant in slot 1 and a run over the configured repositories in
\* slot 2.  The server is configured with the repositories o/b and o/d.
InitRace ==
    /\ store = {}
    /\ nextId = 1
    /\ env \in RaceConfigs
    /\ proc = [p \in Slots |-> IdleProc]
    /\ served = 0

NextRace ==
    \/ \E p \in Slots :
          \/ served < MaxRaceRequests /\ SyncAllCall(p)
          \/ FetchResponse(p)
          \/ FindResponse(p)
          \/ CreateResponse(p)
          \/ UpdateResponse(p)
          \/ Finish(p)
    \/ served < MaxRaceRequests /\ SyncUserCall(1)
    \/ SearchResponse(1)
    \/ UserFindResponse(1)
    \/ UserCreateResponse(1)
    \/ UserUpdateResponse(1)

SpecRace == InitRace /\ [][NextRace]_vars

\* two sync runs at a time over a configuration with an entry that is not of
\* the form owner/name and the repository o/c, whose issue list fills pages
InitAccount ==
    /\ store = {}
    /\ nextId = 1
    /\ env = [GH_TOKEN |-> Str("token"), GH_REPOS |-> Text(ReposBadC)]
    /\ proc = [p \in Slots |-> IdleProc]
    /\ served = 0

NextAccount ==
    \E p \in Slots :
        \/ served < MaxRaceRequests /\ SyncAllCall(p)
        \/ FetchResponse(p)
        \/ FindResponse(p)
        \/ CreateResponse(p)
        \/ UpdateResponse(p)
        \/ Finish(p)

SpecAccount == InitAccount /\ [][NextAccount]_vars

\* sync runs, one at a time, over the entries o/c, nope and o/b, in which every
\* remote and store call that is in flight resolves or rejects in the end.
\* The remote answers a page beyond MaxFullPages with fewer than perPage entries.
InitLive ==
    /\ store = {}
    /\ nextId = 1
    /\ env = [GH_TOKEN |-> Str("token"), GH_REPOS |-> Text(ReposCBadB)]
    /\ proc = [p \in Slots |-> IdleProc]
    /\ served = 0

NextLive ==
    \/ served < MaxRaceRequests /\ SyncAllCall(1)
    \/ FetchResponse(1)
    \/ FindResponse(1)
    \/ CreateResponse(1)
    \/ UpdateResponse(1)
    \/ Finish(1)

CallsResolve ==
    /\ WF_vars(FetchResponse(1))
    /\ WF_vars(FindResponse(1))
    /\ WF_vars(CreateResponse(1))
    /\ WF_vars(UpdateResponse(1))

SpecLive == InitLive /\ [][NextLive]_vars /\ CallsResolve

(***************************************************************************)
(* Properties                                                              *)
(***************************************************************************)
Last(h) == h[Len(h)]

\* the rows of a store with a natural key
RowsOf(s, n, r) == {row \in s : row.githubNumber = n /\ row.repository = r}

\* the rows of a store with an id
RowsWithId(s, id) == {row \in s : row.id = id}

\* slot p completes a store write of a sync run in this step
SyncWrote(p) ==
    /\ proc[p].pc \in {"create", "update", "userCreate", "userUpdate"}
    /\ Len(proc'[p].hist) = Len(proc[p].hist) + 1
    /\ Last(proc'[p].hist).e \in {"create", "update"}

\* slot p completes the create or update call of a sync run in this step,
\* whether the store accepted it or not
SyncWriteReturned(p) ==
    /\ proc[p].pc \in {"create", "update", "userCreate", "userUpdate"}
    /\ Len(proc'[p].hist) = Len(proc[p].hist) + 1

\* C1: whenever a sync run of either variant writes an issue that the remote
\* reports closed, by create or by update, the row of that issue has
\* workflowStatus end right after the write
C1_ClosedForcesEnd ==
    [][\A p \in Slots :
         (SyncWrote(p) /\ Last(proc'[p].hist).state = "closed") =>
            LET ev == Last(proc'[p].hist)
            IN  /\ RowsOf(store', ev.number, ev.repo) # {}
                /\ \A row \in RowsOf(store', ev.number, ev.repo) :
                      row.workflowStatus = "end"]_vars

\* C1 witness: the by-user sync has just updated, from a closed remote issue,
\* a row that was in_process, and the row is at end
C1_Witness ==
    \E p \in Slots :
        /\ proc[p].op = "syncUser"
        /\ proc[p].hist # <<>>
        /\ Last(proc[p].hist).e = "update"
        /\ Last(proc[p].hist).state = "closed"
        /\ Last(proc[p].hist).before.workflowStatus = "in_process"
        /\ \A row \in RowsOf(store, Last(proc[p].hist).number, Last(proc[p].hist).repo) :
              row.workflowStatus = "end"

C3_OpenKeepsWorkflow ==
    [][\A p \in Slots :
         (/\ SyncWrote(p)
          /\ Last(proc'[p].hist).e = "update"
          /\ Last(proc'[p].hist).state = "open"
          /\ Last(proc'[p].hist).before.statusGithub = "open") =>
            LET ev == Last(proc'[p].hist)
            IN  /\ RowsOf(store', ev.number, ev.repo) # {}
                /\ \A row \in RowsOf(store', ev.number, ev.repo) :
                      row.workflowStatus = ev.before.workflowStatus]_vars

\* C3 witness: an open row that was in_process has just been synced from the
\* open issue and is in_process
C3_Witness ==
    \E p \in Slots :
        /\ proc[p].hist # <<>>
        /\ Last(proc[p].hist).e = "update"
        /\ Last(proc[p].hist).state = "open"
        /\ Last(proc[p].hist).before.statusGithub = "open"
        /\ Last(proc[p].hist).before.workflowStatus = "in_process"
        /\ \A row \in RowsOf(store, Last(proc[p].hist).number, Last(proc[p].hist).repo) :
              row.workflowStatus = "in_process"

\* C4: with one request at a time, the sync of an issue whose key has no row
\* creates the row and counts it as created, the sync of an issue whose key has
\* a row counts it as updated, and either way the key has exactly one row
\* afterwards; so an issue synced twice is created, then updated, in one row
C4_UpsertIdempotent ==
    [][\A p \in Slots :
         SyncWriteReturned(p) =>
            LET ev == Last(proc'[p].hist)
                hadRow == RowsOf(store, ev.number, ev.repo) # {}
                r0 == proc[p].result
                r1 == proc'[p].result
            IN  /\ ~hadRow => /\ ev.e = "create"
                              /\ r1.created = r0.created + 1
                              /\ r1.updated = r0.updated
                /\ hadRow => /\ ev.e = "update"
                             /\ r1.updated = r0.updated + 1
                             /\ r1.created = r0.created
                /\ Cardinality(RowsOf(store', ev.number, ev.repo)) = 1]_vars

\* C4 witness: a run has ended that updated a row which was as its creation
\* left it, changed nothing in it, and counted one update and no creation
C4_Witness ==
    \E p \in Slots :
        /\ proc[p].pc = "done"
        /\ proc[p].op = "syncAll"
        /\ proc[p].ret.kind = "return"
        /\ proc[p].ret.value.created = 0
        /\ proc[p].ret.value.updated = 1
        /\ \E i \in 1..Len(proc[p].hist) :
              /\ proc[p].hist[i].e = "update"
              /\ proc[p].hist[i].before.selectedContext = Null
              /\ RowsOf(store, proc[p].hist[i].number, proc[p].hist[i].repo)
                    = {proc[p].hist[i].before}

\* C5: in every reachable state, also with the store calls of two requests
\* interleaved, no two rows share (githubNumber, repository)
C5_UniqueKey ==
    \A r1 \in store, r2 \in store :
        (r1.githubNumber = r2.githubNumber /\ r1.repository = r2.repository) => r1 = r2

\* C5 witness: a sync run whose lookup found no row has had its create refused
\* because another run created the row in between
C5_Witness ==
    \E p \in Slots :
        /\ proc[p].hist # <<>>
        /\ Last(proc[p].hist).e = "createFailed"
        /\ Cardinality(RowsOf(store, Last(proc[p].hist).number, Last(proc[p].hist).repo)) = 1

\* slot p, serving a start request, takes a step
StartStep(p) == proc[p].op = "start" /\ proc'[p] # proc[p]

\* C6: a start request with a valid selectedContext that finds its row with a
\* workflowStatus other than pending is answered 400, and no row changes
C6_StartNotPendingRefused ==
    [][\A p \in Slots :
         (/\ StartStep(p)
          /\ proc[p].pc = "startFind"
          /\ \E row \in RowsWithId(store, proc[p].id) : row.workflowStatus # "pending") =>
            /\ proc'[p].pc = "done"
            /\ proc'[p].ret.status = 400
            /\ store' = store]_vars

\* C6 witness: a start request on an open row that is in_process has been
\* answered 400
C6_Witness ==
    \E p \in Slots :
        /\ proc[p].op = "start"
        /\ proc[p].pc = "done"
        /\ proc[p].ret.status = 400
        /\ Truthy(proc[p].body.selectedContext)
        /\ \E row \in RowsWithId(store, proc[p].id) :
              row.workflowStatus = "in_process" /\ row.statusGithub = "open"

\* C7: a start request with a valid selectedContext that finds its row with
\* statusGithub closed is answered 400 "Cannot start a closed issue", and no
\* row changes
C7_StartClosedRefused ==
    [][\A p \in Slots :
         (/\ StartStep(p)
          /\ proc[p].pc = "startFind"
          /\ \E row \in RowsWithId(store, proc[p].id) : row.statusGithub = "closed") =>
            /\ proc'[p].pc = "done"
            /\ proc'[p].ret.status = 400
            /\ proc'[p].ret.body = [error |-> "Cannot start a closed issue"]
            /\ store' = store]_vars

\* C7 witness: a start request on a closed row has been answered 400
C7_Witness ==
    \E p \in Slots :
        /\ proc[p].op = "start"
        /\ proc[p].pc = "done"
        /\ proc[p].ret.status = 400
        /\ Truthy(proc[p].body.selectedContext)
        /\ \E row \in RowsWithId(store, proc[p].id) : row.statusGithub = "closed"

\* the prompt a start request is to store: the submitted one, or null when it
\* is absent or empty
ExpectedPrompt(body) ==
    IF body.prompt.t = "string" /\ body.prompt.v # "" THEN body.prompt ELSE Null

ExpectedStart(body, rows) ==
    IF body.selectedContext.t # "string" \/ body.selectedContext.v = ""
    THEN [status |-> 400, error |-> "selectedContext is required"]
    ELSE IF rows = {}
    THEN [status |-> 404, error |-> "Issue not found"]
    ELSE IF \E row \in rows : row.statusGithub # "open"
    THEN [status |-> 400, error |-> "Cannot start a closed issue"]
    ELSE IF \E row \in rows : row.workflowStatus # "pending"
    THEN [status |-> 400, error |-> "Issue is already in process or ended"]
    ELSE [status |-> 200, error |-> ""]

\* C9: with one request at a time, the response to a start request with a JSON
\* body is the one of the first failing check in the order selectedContext,
\* row exists, statusGithub open, workflowStatus pending; a refusal for
\* selectedContext comes before any store call; and a step of a start request
\* changes the store only when the request is answered 200
C9_StartChecksInOrder ==
    [][\A p \in Slots :
         /\ (/\ proc'[p].op = "start"
              /\ proc'[p].pc = "done"
              /\ proc[p].pc # "done"
              /\ proc'[p].body.json) =>
                LET q == proc'[p]
                    expected == ExpectedStart(q.body, RowsWithId(store, q.id))
                IN  /\ q.ret.status = expected.status
                    /\ expected.status # 200 =>
                          /\ q.ret.body = [error |-> expected.error]
                          /\ store' = store
                    /\ expected.error = "selectedContext is required" => q.hist = <<>>
         /\ (proc'[p].op = "start" /\ proc'[p] # proc[p] /\ store' # store) =>
                (proc'[p].pc = "done" /\ proc'[p].ret.status = 200)]_vars

\* C9 witness: a start request for a row that is closed and at end, failing
\* both the third and the fourth check, has been answered by the third
C9_Witness ==
    \E p \in Slots :
        /\ proc[p].op = "start"
        /\ proc[p].pc = "done"
        /\ proc[p].ret.status = 400
        /\ proc[p].ret.body = [error |-> "Cannot start a closed issue"]
        /\ \E row \in RowsWithId(store, proc[p].id) :
              row.statusGithub = "closed" /\ row.workflowStatus = "end"

\* the events of a run's history with a name and a repository
EventsOf(h, kinds, r) == {i \in 1..Len(h) : h[i].e \in kinds /\ h[i].repo = r}

\* the issues kept from the pages of repository r that a run fetched
RECURSIVE KeptOf(_, _)
KeptOf(h, r) ==
    IF h = <<>> THEN 0
    ELSE (IF Head(h).e = "fetch" /\ Head(h).repo = r /\ Head(h).ok THEN Head(h).kept ELSE 0)
         + KeptOf(Tail(h), r)

\* a finished run over o/a and o/b, in either order, whose fetch of o/a failed
\* and whose fetch of o/b succeeded
AFailedBSucceeded(q) ==
    /\ q.op = "syncAll"
    /\ q.pc = "done"
    /\ q.repos \in {<<RepoA, RepoB>>, <<RepoB, RepoA>>}
    /\ \E i \in EventsOf(q.hist, {"fetch"}, RepoA) : ~q.hist[i].ok
    /\ EventsOf(q.hist, {"fetch"}, RepoB) # {}
    /\ \A i \in EventsOf(q.hist, {"fetch"}, RepoB) : q.hist[i].ok

\* C10: a run over o/a and o/b, in either order, whose fetch of o/a fails and
\* whose fetch of o/b succeeds returns normally with exactly one error, the
\* fetch error of o/a; it writes no row of o/a, and created + updated is the
\* number of issues fetched from o/b, each written once
C10_FailedRepoIsSkipped ==
    \A p \in Slots :
        AFailedBSucceeded(proc[p]) =>
            LET q == proc[p]
            IN  /\ q.ret.kind = "return"
                /\ Len(q.ret.value.errors) = 1
                /\ q.ret.value.errors[1].msg = "Error fetching issues from"
                /\ q.ret.value.errors[1].repo = RepoA
                /\ EventsOf(q.hist, {"create", "update"}, RepoA) = {}
                /\ q.ret.value.created + q.ret.value.updated
                      = Cardinality(EventsOf(q.hist, {"create", "update"}, RepoB))
                /\ q.ret.value.created + q.ret.value.updated = KeptOf(q.hist, RepoB)

\* C10 witness: a run over o/b, o/a has ended; o/a failed after the two
\* issues of o/b were written
C10_Witness ==
    \E p \in Slots :
        /\ AFailedBSucceeded(proc[p])
        /\ proc[p].repos = <<RepoB, RepoA>>
        /\ proc[p].ret.kind = "return"
        /\ proc[p].ret.value.created + proc[p].ret.value.updated = 2

\* the store calls of a sync run that write, accepted or refused
WriteKinds == {"create", "update", "createFailed", "updateFailed"}

\* the events of a run's history with a name
EventsNamed(h, kinds) == {i \in 1..Len(h) : h[i].e \in kinds}

\* C11: when the create or update of one fetched issue is refused, the run
\* adds one error naming that issue's number and repository, counts it neither
\* as created nor as updated, writes nothing, and goes on: to the lookup of
\* the next issue when there is one, else to the next repository; and a run
\* that returns has issued one write for every issue it fetched
C11_IssueFailureIsSkipped ==
    [][\A p \in Slots :
         /\ (SyncWriteReturned(p)
                /\ Last(proc'[p].hist).e \in {"createFailed", "updateFailed"}) =>
              LET q == proc[p]
                  q1 == proc'[p]
                  ev == Last(q1.hist)
                  n == Len(q.result.errors)
              IN  /\ ev.number = q.issues[q.ii].number
                  /\ store' = store
                  /\ q1.result.created = q.result.created
                  /\ q1.result.updated = q.result.updated
                  /\ Len(q1.result.errors) = n + 1
                  /\ SubSeq(q1.result.errors, 1, n) = q.result.errors
                  /\ q1.result.errors[n + 1].msg = "Error syncing issue"
                  /\ q1.result.errors[n + 1].number = ev.number
                  /\ q1.result.errors[n + 1].repo = ev.repo
                  /\ q.ii < Len(q.issues) =>
                        /\ q1.pc \in {"find", "userFind"}
                        /\ q1.issues = q.issues
                        /\ q1.ii = q.ii + 1
                  /\ (q.ii = Len(q.issues) /\ q.op = "syncAll" /\ q.ri < Len(q.repos)) =>
                        /\ q1.pc = "fetch"
                        /\ q1.ri = q.ri + 1
         /\ (proc[p].pc # "done" /\ proc'[p].pc = "done" /\ proc'[p].op = "syncAll") =>
              \A r \in {RepoB, RepoD} :
                  Cardinality(EventsOf(proc'[p].hist, WriteKinds, r)) = KeptOf(proc'[p].hist, r)
         /\ (proc[p].pc # "done" /\ proc'[p].pc = "done" /\ proc'[p].op = "syncUser") =>
              Cardinality(EventsNamed(proc'[p].hist, WriteKinds)) = Len(proc'[p].issues)]_vars

\* C11 witness: a run over o/b, o/d has returned with one error; its create of
\* issue 1 of o/b was refused, and after that it wrote issue 2 of o/b and the
\* issue of o/d
C11_Witness ==
    \E p \in Slots :
        /\ proc[p].pc = "done"
        /\ proc[p].op = "syncAll"
        /\ proc[p].ret.kind = "return"
        /\ Len(proc[p].ret.value.errors) = 1
        /\ proc[p].ret.value.errors[1].msg = "Error syncing issue"
        /\ proc[p].ret.value.errors[1].number = 1
        /\ proc[p].ret.value.created + proc[p].ret.value.updated = 2
        /\ \E i, j, k \in 1..Len(proc[p].hist) :
              /\ i < j /\ j < k
              /\ proc[p].hist[i].e = "createFailed" /\ proc[p].hist[i].repo = RepoB
              /\ proc[p].hist[j].e \in {"create", "update"}
              /\ proc[p].hist[j].repo = RepoB /\ proc[p].hist[j].number = 2
              /\ proc[p].hist[k].e \in {"create", "update"} /\ proc[p].hist[k].repo = RepoD

\* the configuration a sync variant needs is absent
ConfigMissing(op) ==
    \/ env.GH_TOKEN.t = "undefined"
    \/ op = "syncAll" /\ env.GH_REPOS.t = "undefined"

\* the calls of a run's history that failed
FailedCalls(h) ==
    {i \in 1..Len(h) :
        \/ h[i].e \in {"fetch", "search"} /\ ~h[i].ok
        \/ h[i].e \in {"createFailed", "updateFailed"}}

\* error m of a returned list reports the failed call ev
Reports(m, ev) ==
    CASE ev.e = "fetch" -> m.msg = "Error fetching issues from" /\ m.repo = ev.repo
      [] ev.e = "search" -> m.msg = "Error fetching issues for user"
      [] OTHER -> m.msg = "Error syncing issue" /\ m.number = ev.number /\ m.repo = ev.repo

\* C12: a sync run ends by throwing exactly when its configuration is absent
\* (GH_TOKEN or GH_REPOS for the all-repositories variant, GH_TOKEN for the
\* by-user variant); a run that throws has issued no remote or store call and
\* the store is as it was; every other run returns, and each of its failed
\* fetches and refused writes is reported by an error of the returned list
C12_ThrowsOnlyOnMissingConfig ==
    [][\A p \in Slots :
         (proc[p].pc # "done" /\ proc'[p].pc = "done"
             /\ proc'[p].op \in {"syncAll", "syncUser"}) =>
           LET q1 == proc'[p]
           IN  /\ q1.ret.kind \in {"throw", "return"}
               /\ q1.ret.kind = "throw" <=> ConfigMissing(q1.op)
               /\ q1.ret.kind = "throw" =>
                     /\ q1.hist = <<>>
                     /\ proc[p].pc = "idle"
                     /\ store' = store
               /\ q1.ret.kind = "return" =>
                     /\ \A i \in FailedCalls(q1.hist) :
                           \E j \in 1..Len(q1.ret.value.errors) :
                               Reports(q1.ret.value.errors[j], q1.hist[i])
                     /\ Cardinality(FailedCalls(q1.hist)) <= Len(q1.ret.value.errors)]_vars

\* C12 witness: with GH_REPOS absent, an all-repositories run has thrown
\* without a call, and a by-user run has returned with its failed search
\* listed in errors
C12_Witness ==
    /\ proc[2].pc = "done"
    /\ proc[2].op = "syncAll"
    /\ proc[2].ret.kind = "throw"
    /\ proc[2].hist = <<>>
    /\ proc[1].pc = "done"
    /\ proc[1].op = "syncUser"
    /\ proc[1].ret.kind = "return"
    /\ FailedCalls(proc[1].hist) = {1}
    /\ Len(proc[1].ret.value.errors) = 1

\* in this step every row that is new, or whose workflowStatus differs from
\* before, is written by a store call of one of the kinds, with the value of
\* that path: the creation default, the reconciliation rule applied to the
\* row the run looked up, in_process, or the value of the sample row
WorkflowWrittenOnlyBy(kinds) ==
    \A row1 \in store' :
        LET old == RowsWithId(store, row1.id)
        IN  (old = {} \/ \E row \in old : row.workflowStatus # row1.workflowStatus) =>
              \E p \in Slots :
                  /\ Len(proc'[p].hist) = Len(proc[p].hist) + 1
                  /\ LET ev == Last(proc'[p].hist)
                         q == proc[p]
                     IN  /\ ev.e \in kinds
                         /\ CASE ev.e = "create" ->
                                    /\ old = {}
                                    /\ row1.githubNumber = ev.number
                                    /\ row1.repository = ev.repo
                                    /\ row1.workflowStatus =
                                          (IF ev.state = "closed" THEN "end" ELSE "pending")
                              [] ev.e = "update" ->
                                    /\ row1.id = q.existing.id
                                    /\ row1.workflowStatus =
                                          (IF ev.state = "closed" THEN "end"
                                           ELSE IF q.existing.statusGithub = "closed" THEN "pending"
                                           ELSE q.existing.workflowStatus)
                              [] ev.e = "start" ->
                                    /\ row1.id = ev.id
                                    /\ row1.workflowStatus = "in_process"
                              [] ev.e = "upsert" ->
                                    /\ row1.githubNumber = ev.number
                                    /\ row1.repository = ev.repo
                                    /\ \E i \in 1..Len(sampleIssues) :
                                          /\ sampleIssues[i].githubNumber = ev.number
                                          /\ sampleIssues[i].repository = ev.repo
                                          /\ sampleIssues[i].workflowStatus = row1.workflowStatus
                              [] OTHER -> FALSE

\* C13 as stated: every new row and every change of a row's workflowStatus is
\* made by the creation default of a sync create, by the reconciliation rule
\* of a sync update, or by the start action, and by no other path
C13_OnlyThreeWriters ==
    [][WorkflowWrittenOnlyBy({"create", "update", "start"})]_vars

\* C13 amended: every new row and every change of a row's workflowStatus is
\* made by the creation default of a sync create, by the reconciliation rule
\* of a sync update, by the start action, or by the upsert of the seed
\* script, which writes the workflowStatus of its sample row
C13_FourWriters ==
    [][WorkflowWrittenOnlyBy({"create", "update", "start", "upsert"})]_vars

\* C13 witness: a row that start had moved to in_process has been set back to
\* pending by the upsert of the seed script
C13_Witness ==
    \E i \in 1..Len(proc[2].hist) :
        LET ev == proc[2].hist[i]
        IN  /\ ev.e = "upsert"
            /\ ev.before # Null
            /\ ev.before.workflowStatus = "in_process"
            /\ ev.before.selectedContext # Null
            /\ \E row \in RowsOf(store, ev.number, ev.repo) : row.workflowStatus = "pending"

\* the columns of a row that only start writes
UserInput(row) == <<row.selectedContext, row.prompt>>

\* C14: a store write of a sync run of either variant leaves selectedContext
\* and prompt alone: a created row has both null, and after an update every
\* row holds in both what it held before, whether the rule forced end, reset
\* to pending or kept the workflowStatus
C14_SyncKeepsUserInput ==
    [][\A p \in Slots :
         SyncWrote(p) =>
            LET ev == Last(proc'[p].hist)
            IN  \A row1 \in store' :
                   IF RowsWithId(store, row1.id) = {}
                   THEN /\ ev.e = "create"
                        /\ UserInput(row1) = <<Null, Null>>
                   ELSE \A row \in RowsWithId(store, row1.id) :
                           UserInput(row1) = UserInput(row)]_vars

\* C14 witness: a by-user sync has updated a closed row that holds a context
\* and a prompt from an open remote issue; the row is pending again and still
\* holds both
C14_Witness ==
    \E p \in Slots :
        /\ proc[p].op = "syncUser"
        /\ proc[p].hist # <<>>
        /\ LET ev == Last(proc[p].hist)
           IN  /\ ev.e = "update"
               /\ ev.state = "open"
               /\ ev.before.statusGithub = "closed"
               /\ ev.before.selectedContext = Str("checkout_api")
               /\ ev.before.prompt = Str("fix the bug")
               /\ \E row \in RowsOf(store, ev.number, ev.repo) :
                     /\ row.workflowStatus = "pending"
                     /\ UserInput(row) = <<Str("checkout_api"), Str("fix the bug")>>

\* the remote issue a sync run is persisting
CurrentIssue(q) == q.issues[q.ii]

\* C15: an update of a sync run of either variant sets the row's title,
\* description, labels, url, statusGithub and updatedAtGithub to the values of
\* the remote issue, whatever the branch of the workflow rule, and keeps its
\* id, githubNumber, repository and createdAtGithub
C15_UpdateRefreshesRemoteColumns ==
    [][\A p \in Slots :
         (SyncWrote(p) /\ Last(proc'[p].hist).e = "update") =>
            LET issue == CurrentIssue(proc[p])
                id == proc[p].existing.id
            IN  /\ RowsWithId(store', id) # {}
                /\ \A row1 \in RowsWithId(store', id) :
                      /\ row1.title = issue.title
                      /\ row1.description = issue.body
                      /\ row1.labels = [i \in 1..Len(issue.labels) |-> issue.labels[i].name]
                      /\ row1.url = issue.html_url
                      /\ row1.statusGithub = (IF issue.state = "open" THEN "open" ELSE "closed")
                      /\ row1.updatedAtGithub = NewDate(issue.updated_at)
                      /\ \A row \in RowsWithId(store, id) :
                            /\ row1.githubNumber = row.githubNumber
                            /\ row1.repository = row.repository
                            /\ row1.createdAtGithub = row.createdAtGithub]_vars

\* C15 witness: an all-repositories sync has updated a closed row from the
\* edited, open remote issue: the row is pending and holds the edited title,
\* body, label and date
C15_Witness ==
    \E p \in Slots :
        /\ proc[p].op = "syncAll"
        /\ proc[p].hist # <<>>
        /\ LET ev == Last(proc[p].hist)
           IN  /\ ev.e = "update"
               /\ ev.state = "open"
               /\ ev.before.statusGithub = "closed"
               /\ ev.before.title = "first title"
               /\ \E row \in RowsOf(store, ev.number, ev.repo) :
                     /\ row.id = ev.before.id
                     /\ row.workflowStatus = "pending"
                     /\ row.statusGithub = "open"
                     /\ row.title = "edited title"
                     /\ row.description = Str("edited body")
                     /\ row.labels = <<"bug">>
                     /\ row.updatedAtGithub = 20241202
                     /\ row.createdAtGithub = ev.before.createdAtGithub

\* the page and the limit a query asks for, 0 when the parameter is neither
\* absent nor a number from 1 on
PageAsked(query) ==
    CASE query.page = Null -> 1
      [] query.page = Text(<<"1">>) -> 1
      [] query.page = Text(<<"2">>) -> 2
      [] query.page = Text(<<"3">>) -> 3
      [] OTHER -> 0

LimitAsked(query) ==
    CASE query.limit = Null -> 20
      [] query.limit = Text(<<"2", "0">>) -> 20
      [] query.limit = Text(<<"7">>) -> 7
      [] OTHER -> 0

\* the rows of a table that pass the filters of a query: the repository when
\* one is given, and each status that is given as a value of its enum
Selected(s, query) ==
    {row \in s :
        /\ query.repository \in {Text(RepoC), Text(RepoD)} => row.repository = query.repository.v
        /\ query.workflowStatus \in {Str("pending"), Str("in_process"), Str("end")} =>
              row.workflowStatus = query.workflowStatus.v
        /\ query.statusGithub \in {Str("open"), Str("closed")} =>
              row.statusGithub = query.statusGithub.v}

\* slot p has answered a list request
Listed(p) == proc[p].op = "list" /\ proc[p].pc = "done"

\* C16: a list request for page p >= 1 with limit L >= 1 (1 and 20 when
\* absent) on a table with N rows passing the filters is answered 200 with
\* min(L, max(0, N - (p-1)*L)) rows, all of them passing the filters and no
\* row twice, with total N and totalPages the least k with k * L >= N
C16_PageSizeAndTotals ==
    \A p \in Slots :
        (Listed(p) /\ PageAsked(proc[p].query) >= 1 /\ LimitAsked(proc[p].query) >= 1) =>
           LET pg == PageAsked(proc[p].query)
               L == LimitAsked(proc[p].query)
               N == Cardinality(Selected(store, proc[p].query))
               rest == N - (pg - 1) * L
               body == proc[p].ret.body
           IN  /\ proc[p].ret.status = 200
               /\ Len(body.issues) = (IF rest < 0 THEN 0 ELSE IF rest < L THEN rest ELSE L)
               /\ \A i \in 1..Len(body.issues) : body.issues[i] \in Selected(store, proc[p].query)
               /\ \A i, j \in 1..Len(body.issues) : body.issues[i] = body.issues[j] => i = j
               /\ body.pagination.page = pg
               /\ body.pagination.limit = L
               /\ body.pagination.total = N
               /\ body.pagination.totalPages.t = "number"
               /\ body.pagination.totalPages.n * L >= N
               /\ (body.pagination.totalPages.n - 1) * L < N

\* C16 witness: page 2 with limit 20 of a table of 45 rows, no filter given,
\* has been answered with 20 rows and totalPages 3
C16_Witness ==
    /\ Listed(1)
    /\ Cardinality(store) = 45
    /\ proc[1].query = [page |-> Text(<<"2">>), limit |-> Text(<<"2", "0">>),
                        repository |-> Null, workflowStatus |-> Null, statusGithub |-> Null]
    /\ Len(proc[1].ret.body.issues) = 20
    /\ proc[1].ret.body.pagination.total = 45
    /\ proc[1].ret.body.pagination.totalPages = Num(3)

\* the status parameters of the list requests that are no value of their enum
BadWorkflowStatus == {Str(""), Str("done")}
BadStatusGithub == {Str("OPEN")}

\* the same query without the status parameters that are no value of their enum
WithoutBadStatus(query) ==
    [query EXCEPT
        !.workflowStatus = IF @ \in BadWorkflowStatus THEN Null ELSE @,
        !.statusGithub = IF @ \in BadStatusGithub THEN Null ELSE @]

\* the rows of a table that have the value of every filter parameter given
Passing(s, query) ==
    {row \in s :
        /\ query.repository # Null => row.repository = query.repository.v
        /\ query.workflowStatus # Null => row.workflowStatus = query.workflowStatus.v
        /\ query.statusGithub # Null => row.statusGithub = query.statusGithub.v}

\* C17: a list request with a workflowStatus or statusGithub parameter that
\* is no value of its enum is answered as the request without that parameter
\* is: with 200 whenever page and limit are numbers from 1 on, and then with
\* the count and the page of the rows that pass the remaining filters, in the
\* order of the list; it is refused only when page or limit is no such number
C17_InvalidFilterIgnored ==
    \A p \in Slots :
        (/\ Listed(p)
         /\ \/ proc[p].query.workflowStatus \in BadWorkflowStatus
            \/ proc[p].query.statusGithub \in BadStatusGithub) =>
           LET rows == Passing(store, WithoutBadStatus(proc[p].query))
               body == proc[p].ret.body
               valid == PageAsked(proc[p].query) >= 1 /\ LimitAsked(proc[p].query) >= 1
           IN  /\ valid => proc[p].ret.status = 200
               /\ proc[p].ret.status # 200 => ~valid
               /\ proc[p].ret.status = 200 =>
                     /\ body.pagination.total = Cardinality(rows)
                     /\ \E ties \in {"up", "down"} :
                           body.issues = PageOfRows(rows, ties,
                               (body.pagination.page - 1) * body.pagination.limit,
                               body.pagination.limit)

\* C17 witness: a request for workflowStatus=done and statusGithub=open on
\* the table of 45 rows has been answered 200 with the first 20 of the 30
\* open rows, started rows among them
C17_Witness ==
    /\ Listed(1)
    /\ Cardinality(store) = 45
    /\ proc[1].query = [page |-> Null, limit |-> Null, repository |-> Null,
                        workflowStatus |-> Str("done"), statusGithub |-> Str("open")]
    /\ proc[1].ret.status = 200
    /\ proc[1].ret.body.pagination.total = 30
    /\ Len(proc[1].ret.body.issues) = 20
    /\ \A i \in 1..20 : proc[1].ret.body.issues[i].statusGithub = "open"
    /\ \E i \in 1..20 : proc[1].ret.body.issues[i].workflowStatus = "in_process"

\* the entries of a page that carry no pull-request marker, in their order
Unmarked(data) == SelectSeq(data, LAMBDA item : item.pull_request = FALSE)

\* C18: every fetch of fetchIssuesFromRepo asks for page 1 first and for the
\* page after a full one next; a successful page of fewer than 100 entries,
\* pull requests counted, ends the fetching and one of 100 entries does not;
\* the list handed on holds the unmarked entries of the pages fetched, in
\* page order, and nothing else
C18_PagesInOrderUntilShort ==
    [][\A p \in Slots :
         (proc[p].pc = "fetch" /\ proc'[p] # proc[p] /\ Last(proc'[p].hist).ok) =>
            LET q == proc[p]
                q1 == proc'[p]
                ev == Last(q1.hist)
            IN  /\ ev.page = q.page
                /\ IF q.hist # <<>> /\ Last(q.hist).e = "fetch" /\ Last(q.hist).ok
                      /\ Last(q.hist).repo = ev.repo /\ Last(q.hist).raw = 100
                   THEN ev.page = Last(q.hist).page + 1
                   ELSE ev.page = 1 /\ q.issues = <<>>
                /\ \E resp \in PageAnswers(ev.repo, q.page) :
                      /\ resp.ok
                      /\ Len(resp.data) = ev.raw
                      /\ LET list == q.issues \o Unmarked(resp.data)
                         IN  IF ev.raw = 100
                             THEN q1.pc = "fetch" /\ q1.ri = q.ri /\ q1.page = q.page + 1
                                  /\ q1.issues = list
                             ELSE /\ q1.pc = "fetch" => q1.ri > q.ri /\ q1.page = 1
                                  /\ IF list = <<>> THEN q1.pc \in {"done", "fetch"}
                                     ELSE q1.pc = "find" /\ q1.ii = 1 /\ q1.issues = list
                /\ \A i \in 1..Len(q1.issues) : ~q1.issues[i].pull_request]_vars

\* C18 witness: a run fetched a first page of 100 pull requests, then a
\* second page with one issue, and went on to persist that issue alone
C18_Witness ==
    \E p \in Slots :
        /\ Len(proc[p].hist) >= 3
        /\ proc[p].hist[1].e = "fetch" /\ proc[p].hist[1].page = 1
        /\ proc[p].hist[1].raw = 100 /\ proc[p].hist[1].kept = 0
        /\ proc[p].hist[2].e = "fetch" /\ proc[p].hist[2].page = 2
        /\ proc[p].hist[2].raw = 1 /\ proc[p].hist[2].kept = 1
        /\ proc[p].hist[3].e = "create" /\ proc[p].hist[3].number = 1
        /\ proc[p].ret.value.created = 1

\* the create calls for issue n of repository r in a run's history
CreateCalls(h, n, r) ==
    {i \in 1..Len(h) : h[i].e \in {"create", "createFailed"}
                         /\ h[i].number = n /\ h[i].repo = r}

\* the create calls of a history that the store accepted
Accepted(h) == {i \in 1..Len(h) : h[i].e = "create"}

\* C19: when two sync runs have both missed the row of one issue and both
\* issued its create, the store has accepted exactly one of the two creates
\* and holds one row for the key, the run whose create was refused lists an
\* error for that issue, and each run counts as created just the creates the
\* store accepted from it, so the issue is counted once
C19_RacingCreatesCountOnce ==
    \A n \in {1, 2}, r \in {RepoA, RepoB, RepoD} :
        (CreateCalls(proc[1].hist, n, r) # {} /\ CreateCalls(proc[2].hist, n, r) # {}) =>
           /\ Cardinality(RowsOf(store, n, r)) = 1
           /\ \E p \in Slots :
                 LET won == proc[p]
                     lost == proc[3 - p]
                 IN  /\ \A i \in CreateCalls(won.hist, n, r) : won.hist[i].e = "create"
                     /\ Cardinality(CreateCalls(won.hist, n, r)) = 1
                     /\ \A i \in CreateCalls(lost.hist, n, r) : lost.hist[i].e = "createFailed"
                     /\ Cardinality(CreateCalls(lost.hist, n, r)) = 1
                     /\ \E j \in 1..Len(lost.result.errors) :
                           /\ lost.result.errors[j].msg = "Error syncing issue"
                           /\ lost.result.errors[j].number = n
                           /\ lost.result.errors[j].repo = r
           /\ \A p \in Slots : proc[p].result.created = Cardinality(Accepted(proc[p].hist))

\* C19 witness: two runs over o/b, o/d have returned; both issued the create
\* of issue 1 of o/b, run 2 had it accepted and run 1 refused, and the two
\* count one created issue of o/b between them
C19_Witness ==
    /\ proc[1].pc = "done" /\ proc[2].pc = "done"
    /\ proc[1].op = "syncAll" /\ proc[2].op = "syncAll"
    /\ \E i \in CreateCalls(proc[1].hist, 1, RepoB) :
          proc[1].hist[i].e = "createFailed"
    /\ \E i \in CreateCalls(proc[2].hist, 1, RepoB) :
          proc[2].hist[i].e = "create" /\ proc[2].hist[i].before = Null
    /\ Cardinality(RowsOf(store, 1, RepoB)) = 1
    /\ Cardinality({i \in Accepted(proc[1].hist) : proc[1].hist[i].number = 1
                                                      /\ proc[1].hist[i].repo = RepoB})
         + Cardinality({i \in Accepted(proc[2].hist) : proc[2].hist[i].number = 1
                                                        /\ proc[2].hist[i].repo = RepoB}) = 1
    /\ Len(proc[1].ret.value.errors) = 1

\* the repository key a run uses for the issue it is persisting
RepositoryKey(q) ==
    IF q.op = "syncAll" THEN q.repos[q.ri]
    ELSE extractRepoFromUrl(CurrentIssue(q).repository_url)

\* the table after the other variant persists the issue run q is persisting,
\* under the same key, id and looked-up row
StoreByOtherVariant(q) ==
    IF q.op = "syncAll"
    THEN IF q.existing = Null
         THEN Created(store, nextId, UserCreateData(CurrentIssue(q), RepositoryKey(q)))
         ELSE Updated(store, q.existing.id, UserUpdateData(CurrentIssue(q), q.existing))
    ELSE IF q.existing = Null
         THEN Created(store, nextId, CreateData(CurrentIssue(q), RepositoryKey(q)))
         ELSE Updated(store, q.existing.id, UpdateData(CurrentIssue(q), q.existing))

\* C20: each variant persists an issue as the other would: its lookup takes
\* the create branch exactly when the table has no row with the key, its
\* write leaves the table that the other variant's create or update of the
\* same issue under the same key leaves, and it counts the issue as created
\* after a create and as updated after an update
C20_VariantsPersistAlike ==
    [][\A p \in Slots :
         /\ (proc[p].pc \in {"find", "userFind"} /\ proc'[p] # proc[p]) =>
               /\ proc'[p].pc \in {"create", "update", "userCreate", "userUpdate"}
               /\ proc'[p].pc \in {"create", "userCreate"} <=>
                     RowsOf(store, CurrentIssue(proc[p]).number, RepositoryKey(proc[p])) = {}
               /\ proc'[p].pc \in {"update", "userUpdate"} =>
                     proc'[p].existing \in
                        RowsOf(store, CurrentIssue(proc[p]).number, RepositoryKey(proc[p]))
         /\ SyncWrote(p) =>
               /\ store' = StoreByOtherVariant(proc[p])
               /\ Last(proc'[p].hist).e = (IF proc[p].existing = Null THEN "create" ELSE "update")
               /\ proc'[p].result.created =
                     proc[p].result.created + (IF proc[p].existing = Null THEN 1 ELSE 0)
               /\ proc'[p].result.updated =
                     proc[p].result.updated + (IF proc[p].existing = Null THEN 0 ELSE 1)]_vars

\* C20 witness: a by-user run has updated the started row of issue 1 of o/a
\* from the closed, edited remote issue; the row is what the update of
\* syncIssue makes of the row before, and the run counts one update
C20_Witness ==
    /\ proc[1].op = "syncUser"
    /\ proc[1].pc = "done"
    /\ proc[1].ret.value.updated = 1
    /\ proc[1].ret.value.created = 0
    /\ \E i \in 1..Len(proc[1].issues) :
          LET issue == proc[1].issues[i]
              ev == Last(proc[1].hist)
          IN  /\ issue.state = "closed"
              /\ issue.title = "edited title"
              /\ ev.e = "update"
              /\ ev.before.workflowStatus = "in_process"
              /\ RowsOf(store, 1, RepoA) = {Patched(ev.before, UpdateData(issue, ev.before))}

\* C21: with one request served at a time from an empty table, every row of
\* a closed issue has workflowStatus end, and every row that is in_process
\* is of an open issue and holds a non-empty string as selectedContext
C21_RowInvariant ==
    \A row \in store :
        /\ row.statusGithub = "closed" => row.workflowStatus = "end"
        /\ row.workflowStatus = "in_process" =>
              /\ row.statusGithub = "open"
              /\ row.selectedContext.t = "string"
              /\ row.selectedContext.v # ""

\* C21 witness: the table holds a started row of an open issue next to the
\* row of a closed issue
C21_Witness ==
    \E row1, row2 \in store :
        /\ row1.workflowStatus = "in_process"
        /\ row1.statusGithub = "open"
        /\ row1.selectedContext = Str("checkout_api")
        /\ row2.statusGithub = "closed"
        /\ row2.workflowStatus = "end"

\* C22: with a start request and a sync run interleaved store call by store
\* call, no row is ever of a closed issue and in_process at once
C22_NeverClosedInProcess ==
    \A row \in store : ~(row.statusGithub = "closed" /\ row.workflowStatus = "in_process")

\* C22 witness: a start request was answered 200 although its update found
\* the row closed and at end, written by a sync run after the start had read
\* it open and pending; the row is closed and in_process
C22_Witness ==
    /\ proc[1].op = "start"
    /\ proc[1].pc = "done"
    /\ proc[1].ret.status = 200
    /\ proc[1].hist # <<>>
    /\ Last(proc[1].hist).e = "start"
    /\ Last(proc[1].hist).before.statusGithub = "closed"
    /\ Last(proc[1].hist).before.workflowStatus = "end"
    /\ \E row \in RowsWithId(store, proc[1].id) :
          row.statusGithub = "closed" /\ row.workflowStatus = "in_process"

\* a start request in slot 1 was answered 200, and the sync run in slot 2 has
\* returned after an update from the open remote issue that found the started
\* row in_process
StartedDuringSync ==
    /\ proc[1].op = "start" /\ proc[1].pc = "done" /\ proc[1].ret.status = 200
    /\ proc[2].op = "syncAll" /\ proc[2].pc = "done"
    /\ \E i \in 1..Len(proc[2].hist) :
          /\ proc[2].hist[i].e = "update"
          /\ proc[2].hist[i].state = "open"
          /\ proc[2].hist[i].before.id = proc[1].id
          /\ proc[2].hist[i].before.workflowStatus = "in_process"

\* C23: when a start was answered 200 and a sync run that saw the issue open
\* updated the started row, then with both finished the row is in_process
C23_StartNotLost ==
    StartedDuringSync =>
        \A row \in RowsWithId(store, proc[1].id) : row.workflowStatus = "in_process"

\* C23 witness: the start was answered 200 between the lookup and the update
\* of the sync run; both have finished and the row is pending again, still
\* holding the context the start wrote
C23_Witness ==
    /\ StartedDuringSync
    /\ \E row \in RowsWithId(store, proc[1].id) :
          /\ row.workflowStatus = "pending"
          /\ row.statusGithub = "open"
          /\ row.selectedContext = Str("checkout_api")

\* the changes of workflowStatus one sync or start may make, with the store
\* call that makes each and the remote state a sync saw
AllowedChanges ==
    {<<"pending", "in_process", "start", "none">>,
     <<"pending", "end", "update", "closed">>,
     <<"in_process", "end", "update", "closed">>,
     <<"end", "pending", "update", "open">>}

\* C24: with one request served at a time on rows created by sync, a step
\* changes a row's workflowStatus only from pending to in_process by start,
\* from pending or in_process to end by a sync that saw the issue closed, or
\* from end to pending by a sync that saw a closed issue open again; and
\* start writes only rows that are pending
C24_OnlyAllowedChanges ==
    [][/\ \A row \in store, row1 \in store' :
            (row1.id = row.id /\ row1.workflowStatus # row.workflowStatus) =>
               /\ Len(proc'[1].hist) = Len(proc[1].hist) + 1
               /\ LET ev == Last(proc'[1].hist)
                  IN  /\ ev.e \in {"start", "update"}
                      /\ <<row.workflowStatus, row1.workflowStatus, ev.e,
                            IF ev.e = "update" THEN ev.state ELSE "none">> \in AllowedChanges
                      /\ (ev.e = "update" /\ ev.state = "open") => row.statusGithub = "closed"
       /\ (proc[1].pc = "startUpdate" /\ store' # store) =>
             \A row \in RowsWithId(store, proc[1].id) : row.workflowStatus = "pending"]_vars

\* C24 witness: a sync that saw the issue closed has moved a started row
\* from in_process to end
C24_Witness ==
    /\ proc[1].hist # <<>>
    /\ Last(proc[1].hist).e = "update"
    /\ Last(proc[1].hist).state = "closed"
    /\ Last(proc[1].hist).before.workflowStatus = "in_process"
    /\ \E row \in store :
          /\ row.id = Last(proc[1].hist).before.id
          /\ row.workflowStatus = "end"
          /\ row.selectedContext = Str("checkout_api")

\* a sync-all run that returned its result
Completed(q) == q.op = "syncAll" /\ q.pc = "done" /\ q.ret.kind = "return"

\* the repositories whose fetch succeeded in a run: the last page was received
FetchedRepos(h) ==
    {h[i].repo : i \in {j \in EventsNamed(h, {"fetch"}) : h[j].ok /\ h[j].raw < perPage}}

\* the fetches of a run that failed
FailedFetches(h) == {i \in EventsNamed(h, {"fetch"}) : ~h[i].ok}

\* the non-pull-request issues a run fetched from the repositories in R
RECURSIVE KeptIn(_, _)
KeptIn(h, R) ==
    IF h = <<>> THEN 0
    ELSE (IF Head(h).e = "fetch" /\ Head(h).ok /\ Head(h).repo \in R THEN Head(h).kept ELSE 0)
         + KeptIn(Tail(h), R)

\* the positions of an error list with a kind of error
ErrorsNamed(errors, msg) == {i \in 1..Len(errors) : errors[i].msg = msg}

\* the configured entries that are not of the form owner/name
InvalidEntries(repos) == {i \in 1..Len(repos) : InvalidRepo(repos[i])}

\* the result of a returned run accounts for everything the run did
Accounted(q) ==
    LET res == q.result
        h == q.hist
        perIssue == ErrorsNamed(res.errors, "Error syncing issue")
        perFetch == ErrorsNamed(res.errors, "Error fetching issues from")
        perEntry == ErrorsNamed(res.errors, "Invalid repo format")
    IN  /\ res.created + res.updated + Cardinality(perIssue) = KeptIn(h, FetchedRepos(h))
        /\ Len(res.errors) = Cardinality(perIssue) + Cardinality(perFetch) + Cardinality(perEntry)
        /\ Cardinality(perFetch) = Cardinality(FailedFetches(h))
        /\ \A i \in FailedFetches(h) : \E j \in perFetch : res.errors[j].repo = h[i].repo
        /\ Cardinality(perEntry) = Cardinality(InvalidEntries(q.repos))
        /\ \A i \in InvalidEntries(q.repos) : \E j \in perEntry : res.errors[j].repo = q.repos[i]
        /\ res.created = Cardinality(EventsNamed(h, {"create"}))

\* C25: when a run of syncIssuesFromGitHub returns, created + updated + the
\* number of per-issue errors is the number of non-pull-request issues fetched
\* from the repositories whose fetch succeeded, errors holds besides these one
\* entry per failed fetch and one per entry not of the form owner/name, and
\* created is the number of rows the run added: in every step the store grows
\* by one row for each run whose created count goes up by one.
C25_ResultAccounts ==
    [][/\ \A p \in Slots : Completed(proc'[p]) => Accounted(proc'[p])
       /\ \A p \in Slots :
             \/ proc'[p].result.created = proc[p].result.created
             \/ proc'[p].result.created = proc[p].result.created + 1
             \/ proc'[p].pc = "idle"
       /\ Cardinality(store') - Cardinality(store) =
             Cardinality({p \in Slots : proc'[p].result.created = proc[p].result.created + 1})]_vars

\* two runs returned: one created the row of issue 1 of o/c, which it found
\* among the pull requests of a full page, the other lost the race for that
\* row; each reports the entry that is not of the form owner/name
C25_Witness ==
    \E p, o \in Slots :
        /\ Completed(proc[p])
        /\ Completed(proc[o])
        /\ \E i \in EventsNamed(proc[p].hist, {"fetch"}) :
              proc[p].hist[i].raw = perPage /\ proc[p].hist[i].kept = 1
        /\ proc[p].result = [EmptyResult EXCEPT
               !.created = 1, !.errors = <<InvalidRepoError(<<"nope">>)>>]
        /\ EventsNamed(proc[o].hist, {"createFailed"}) # {}
        /\ proc[o].result = [EmptyResult EXCEPT
               !.errors = <<InvalidRepoError(<<"nope">>),
                            IssueError(1, RepoC, "Unique constraint failed")>>]
        /\ Cardinality(store) = 1

\* slot p receives a failed page in this step
FetchFailed(p) ==
    /\ proc[p].pc = "fetch"
    /\ proc[p].op = "syncAll"
    /\ Len(proc'[p].hist) = Len(proc[p].hist) + 1
    /\ ~Last(proc'[p].hist).ok

\* C26: when the fetch of a page of a repository fails, on the first page or
\* behind pages that were received, the step writes no row and drops the issues
\* of the received pages, the run goes on without a store call for that
\* repository, and no run ever holds a create or an update for a repository one
\* of whose pages failed.
C26_FailedFetchDiscards ==
    [][\A p \in Slots :
          /\ FetchFailed(p) =>
                /\ store' = store
                /\ proc'[p].issues = <<>>
                /\ proc'[p].pc \in {"done", "fetch"}
                /\ proc'[p].pc = "fetch" => proc'[p].ri > proc[p].ri
                /\ proc'[p].result.created = proc[p].result.created
                /\ proc'[p].result.updated = proc[p].result.updated
          /\ \A i \in FailedFetches(proc'[p].hist) :
                EventsOf(proc'[p].hist, WriteKinds, proc'[p].hist[i].repo) = {}]_vars

\* a run returned after the second page of o/c failed behind a full first page
\* that held issue 1: the store is empty and the result counts nothing
C26_Witness ==
    /\ Completed(proc[1])
    /\ Len(proc[1].hist) = 2
    /\ proc[1].hist[1] = [e |-> "fetch", repo |-> RepoC, page |-> 1, ok |-> TRUE,
                          raw |-> perPage, kept |-> 1]
    /\ proc[1].hist[2] = [e |-> "fetch", repo |-> RepoC, page |-> 2, ok |-> FALSE,
                          raw |-> 0, kept |-> 0]
    /\ proc[1].result = [EmptyResult EXCEPT !.errors = <<FetchError(RepoC, 500)>>]
    /\ store = {}

\* the run of slot 1 has a remote or store call in flight
InFlight == proc[1].op = "syncAll" /\ proc[1].pc \in {"fetch", "find", "create", "update"}

\* from entry q.ri the loop over repos goes on to entry q1.ri, or returns,
\* passing over nothing but entries that are not of the form owner/name
MovesOn(q, q1) ==
    /\ q1.pc \in {"fetch", "done"}
    /\ q1.pc = "fetch" => q1.ri > q.ri /\ q1.ri <= Len(q.repos) /\ q1.page = 1
    /\ \A k \in (q.ri + 1)..(IF q1.pc = "fetch" THEN q1.ri - 1 ELSE Len(q.repos)) :
          InvalidRepo(q.repos[k])
    /\ q1.pc = "done" => Completed(q1)

\* one step of a run: the call in flight is the one for the entry, page or
\* issue the run stands at, and the run goes on to the next one
RunStep(q, q1) ==
    /\ q1.repos = q.repos
    /\ q.pc = "fetch" =>
          /\ Len(q1.hist) = Len(q.hist) + 1
          /\ LET ev == Last(q1.hist)
             IN  /\ ev.e = "fetch" /\ ev.repo = q.repos[q.ri] /\ ev.page = q.page
                 /\ \/ /\ ev.ok /\ ev.raw = perPage
                       /\ q1.pc = "fetch" /\ q1.ri = q.ri /\ q1.page = q.page + 1
                    \/ /\ ev.ok /\ ev.raw < perPage /\ q1.issues # <<>>
                       /\ q1.pc = "find" /\ q1.ri = q.ri /\ q1.ii = 1
                    \/ /\ ~ev.ok \/ (ev.raw < perPage /\ q1.issues = <<>>)
                       /\ MovesOn(q, q1)
    /\ q.pc = "find" =>
          /\ q1.pc \in {"create", "update"}
          /\ q1.hist = q.hist /\ q1.ri = q.ri /\ q1.ii = q.ii /\ q1.issues = q.issues
    /\ q.pc \in {"create", "update"} =>
          /\ Len(q1.hist) = Len(q.hist) + 1
          /\ LET ev == Last(q1.hist)
             IN  /\ ev.e \in WriteKinds
                 /\ ev.number = q.issues[q.ii].number
                 /\ ev.repo = q.repos[q.ri]
          /\ \/ /\ q.ii < Len(q.issues)
                /\ q1.pc = "find" /\ q1.ri = q.ri /\ q1.ii = q.ii + 1 /\ q1.issues = q.issues
             \/ /\ q.ii = Len(q.issues)
                /\ MovesOn(q, q1)

\* C27: a sync-all run with a call in flight returns its result in the end, and
\* on the way each of its steps completes the one call in flight and goes on to
\* the next page, the next issue or the next entry of the list, never back.
C27_RunReturns ==
    /\ [][InFlight => RunStep(proc[1], proc'[1])]_vars
    /\ (InFlight ~> Completed(proc[1]))

\* a run returned after two pages of o/c, the entry nope and two issues of o/b
C27_Witness ==
    /\ Completed(proc[1])
    /\ proc[1].repos = <<RepoC, <<"nope">>, RepoB>>
    /\ Len(proc[1].hist) = 6
    /\ proc[1].hist[1].e = "fetch" /\ proc[1].hist[1].repo = RepoC /\ proc[1].hist[1].raw = perPage
    /\ proc[1].hist[2].e = "fetch" /\ proc[1].hist[2].repo = RepoC /\ proc[1].hist[2].page = 2
    /\ proc[1].hist[3].e = "create" /\ proc[1].hist[3].repo = RepoC
    /\ proc[1].hist[4].e = "fetch" /\ proc[1].hist[4].repo = RepoB /\ proc[1].hist[4].kept = 2
    /\ proc[1].hist[5].e = "create" /\ proc[1].hist[5].number = 1 /\ proc[1].hist[5].repo = RepoB
    /\ proc[1].hist[6].e = "create" /\ proc[1].hist[6].number = 2 /\ proc[1].hist[6].repo = RepoB
    /\ proc[1].result = [EmptyResult EXCEPT
           !.created = 3, !.errors = <<InvalidRepoError(<<"nope">>)>>]

====
